---------------------------- MODULE Spec2Model ----------------------------
(***************************************************************************)
(* BitMagic bit-vector serialization (bmserial.h, encoding.h).            *)
(*                                                                         *)
(* A bit-vector is a sparse map from block index to block; a block is a   *)
(* set of bit positions together with its in-memory representation.  The  *)
(* serialized stream is a sequence of bytes.  The geometry (blocks per    *)
(* vector, words per block) is scaled down; word and byte widths are the  *)
(* program's.                                                              *)
(***************************************************************************)
EXTENDS Integers, Sequences, FiniteSets, TLC

(* ------------------------------ geometry ------------------------------ *)

\* number of blocks addressed by a vector (bm::set_total_blocks, scaled)
set_total_blocks == 140

\* digest waves per block (bm::block_waves, scaled)
block_waves == 8

\* words per digest wave (bm::set_block_digest_wave_size, scaled)
set_block_digest_wave_size == 1

\* bits per bm::word_t
word_bits == 32

set_block_size == block_waves * set_block_digest_wave_size

gap_max_bits == set_block_size * word_bits

AllBits == 0 .. (gap_max_bits - 1)

\* bytes of a raw bit block: set_block_size * sizeof(bm::word_t)
bit_block_bytes == set_block_size * 4

(* ------------------------------ stream constants ----------------------- *)
(* header flags, block type codes and the compression level range of     *)
(* bmserial.h                                                              *)

set_compression_max == 5

BM_HM_DEFAULT == 1

BM_HM_RESIZE == 2

BM_HM_ID_LIST == 4

BM_HM_NO_BO == 8

BM_HM_NO_GAPL == 16

BM_HM_64_BIT == 32

set_block_end == 0

set_block_1zero == 1

set_block_1one == 2

set_block_8zero == 3

set_block_8one == 4

set_block_16zero == 5

set_block_16one == 6

set_block_32zero == 7

set_block_32one == 8

set_block_azero == 9

set_block_aone == 10

set_block_bit == 11

set_block_sgapbit == 12

set_block_sgapgap == 13

set_block_gap == 14

set_block_gapbit == 15

set_block_arrbit == 16

set_block_bit_interval == 17

set_block_arrgap == 18

set_block_bit_1bit == 19

set_block_gap_egamma == 20

set_block_arrgap_egamma == 21

set_block_bit_0runs == 22

set_block_arrgap_egamma_inv == 23

set_block_arrgap_inv == 24

set_block_64zero == 25

set_block_64one == 26

set_block_gap_bienc == 27

set_block_arrgap_bienc == 28

set_block_arrgap_bienc_inv == 29

set_block_arrbit_inv == 30

set_block_arr_bienc == 31

set_block_arr_bienc_inv == 32

set_block_bitgap_bienc == 33

set_block_bit_digest0 == 34

(* ------------------------------ arithmetic ----------------------------- *)

Pow2(n) == 2 ^ n

\* F applied to the value x, which is computed once, before F is applied
With(x, F(_)) == CASE x = x -> F(x)

Min(a, b) == IF a < b THEN a ELSE b

Max(a, b) == IF a > b THEN a ELSE b

\* bit k of the non-negative integer v
BitOf(v, k) == (v \div Pow2(k)) % 2

\* bitwise and / or of two non-negative integers below 2^w
RECURSIVE BitAnd(_, _)
BitAnd(a, b) ==
    IF a = 0 \/ b = 0 THEN 0
    ELSE (a % 2) * (b % 2) + 2 * BitAnd(a \div 2, b \div 2)

RECURSIVE BitOr(_, _)
BitOr(a, b) ==
    IF a = 0 THEN b
    ELSE IF b = 0 THEN a
    ELSE Max(a % 2, b % 2) + 2 * BitOr(a \div 2, b \div 2)

\* the elements of S within lo .. hi in increasing order
RECURSIVE SortedRange(_, _, _)
SortedRange(S, lo, hi) ==
    IF lo >= hi THEN (IF lo = hi /\ lo \in S THEN << lo >> ELSE << >>)
    ELSE (SortedRange(S, lo, lo + (hi - lo) \div 4)
          \o SortedRange(S, lo + (hi - lo) \div 4 + 1, lo + (hi - lo) \div 2))
         \o (SortedRange(S, lo + (hi - lo) \div 2 + 1,
                         lo + (3 * (hi - lo)) \div 4)
             \o SortedRange(S, lo + (3 * (hi - lo)) \div 4 + 1, hi))

SeqToSet(s) == { s[i] : i \in 1 .. Len(s) }

(* ------------------------------ encoder / decoder ---------------------- *)
(* encoding.h.  The stream is a sequence of bytes; multi-byte values are   *)
(* stored least significant byte first (the host order of the model).      *)

\* the n low bytes of v, least significant first
put_bytes(v, n) == [k \in 1 .. n |-> (v \div Pow2(8 * (k - 1))) % 256]

put_8(c) == << c % 256 >>

put_16(s) == put_bytes(s % 65536, 2)

put_32(w) == put_bytes(w, 4)

\* the n bytes holding the bit set S, bit k in byte k \div 8 (a word or a
\* digest stored by put_32 / put_64 with value SUM 2^k)
put_bitset(S, n) ==
    [j \in 1 .. n |->
        LET bit(k) == IF k \in S THEN 1 ELSE 0
            o == 8 * (j - 1)
        IN  bit(o) + 2*bit(o+1) + 4*bit(o+2) + 8*bit(o+3)
            + 16*bit(o+4) + 32*bit(o+5) + 64*bit(o+6) + 128*bit(o+7)]

\* encoder::put_16(const short_t*, count)
RECURSIVE put_16_arr(_)
put_16_arr(arr) ==
    IF arr = << >> THEN << >> ELSE put_16(Head(arr)) \o put_16_arr(Tail(arr))

\* a byte of the stream; 0-based position
ByteAt(b, pos) == b[pos + 1]

get_8(b, pos) == ByteAt(b, pos)

\* get_16 at byte position pos: decoder::get_16 reads the low byte first,
\* decoder_little_endian::get_16 (sw) the high byte first
get_16(sw, b, pos) ==
    IF sw THEN 256 * ByteAt(b, pos) + ByteAt(b, pos + 1)
    ELSE ByteAt(b, pos) + 256 * ByteAt(b, pos + 1)

\* decoder::get_32 / decoder_little_endian::get_32
get_32(sw, b, pos) ==
    IF sw THEN 65536 * get_16(sw, b, pos) + get_16(sw, b, pos + 2)
    ELSE get_16(sw, b, pos) + 65536 * get_16(sw, b, pos + 2)

\* get_16(short_t*, count): decoder reads count values; the loop of
\* decoder_little_endian reads buf_[0], buf_[1] for every element
get_16_arr(sw, b, pos, count) ==
    [k \in 1 .. count |->
        IF sw THEN get_16(sw, b, pos) ELSE get_16(sw, b, pos + 2 * (k - 1))]

\* bit k of the 32-bit word that get_32 reads at byte position pos
WordBit(sw, b, pos, k) ==
    BitOf(ByteAt(b, pos + (IF sw THEN 3 - (k \div 8) ELSE k \div 8)), k % 8)

\* get_32(word_t*, count) as the set of bit positions of the words read
get_words(sw, b, pos, count) ==
    { k \in 0 .. (count * word_bits - 1) :
        WordBit(sw, b, pos + 4 * (k \div word_bits), k % word_bits) = 1 }

\* get_64 as a set of bit positions: decoder::get_64 takes byte j as bits
\* 8j..8j+7; decoder_little_endian::get_64 takes byte 0 as bits 0..7 and
\* byte j > 0 as bits 8(8-j)..8(8-j)+7
get_64(sw, b, pos) ==
    { k \in 0 .. 63 :
        LET j == k \div 8
        IN  BitOf(ByteAt(b, pos + (IF sw /\ j > 0 THEN 8 - j ELSE j)),
                  k % 8) = 1 }

(* ------------------------------ bit_out -------------------------------- *)
(* The bit stream is a sequence of 0/1, first written first.  bit_out      *)
(* fills a 32-bit accumulator from its least significant bit and stores    *)
(* every full accumulator with put_32; flush() stores a partly used one.   *)

\* bm::bit_scan_reverse32: index of the highest set bit of v > 0
bit_scan_reverse32(v) ==
    IF v <= 1 THEN 0
    ELSE CHOOSE k \in 1 .. (word_bits - 1) : 2 ^ k <= v /\ v < 2 ^ (k + 1)

\* bit_out::put_bits: the count low bits of value, lowest first
put_bits(value, count) == [k \in 1 .. count |-> BitOf(value, k - 1)]

\* bit_out::gamma: logv zero bits, a one bit, the logv low bits of value
gamma(value) ==
    LET logv == bit_scan_reverse32(value)
    IN  [k \in 1 .. logv |-> 0] \o << 1 >> \o put_bits(value, logv)

\* the bytes bit_out stores for a bit stream: whole 32-bit words, the last
\* one zero padded by flush()
bit_out_bytes(bits) ==
    LET nwords == (Len(bits) + 31) \div 32
        bit(k) == IF k <= Len(bits) THEN bits[k] ELSE 0
    IN  [j \in 1 .. 4 * nwords |->
            bit(8*j-7) + 2*bit(8*j-6) + 4*bit(8*j-5) + 8*bit(8*j-4)
            + 16*bit(8*j-3) + 32*bit(8*j-2) + 64*bit(8*j-1) + 128*bit(8*j)]

\* value in [0..r] is written with one bit more than logv bits
bic_long_code(value, r, logv) ==
    With((Pow2(logv + 1) - (r + 1)) \div 2, LAMBDA half_c :
        \/ value <= (r \div 2) - half_c - ((r + 1) % 2)
        \/ value > (r \div 2) + half_c)

\* the code of one interpolated value: centered minimal binary code of
\* value in [0..r] (bic_encode_u16_cm, the block under "if (r)")
bic_code(value, r) ==
    IF r = 0 THEN << >>
    ELSE With(bit_scan_reverse32(r + 1), LAMBDA logv :
            put_bits(value,
                     logv + (IF bic_long_code(value, r, logv) THEN 1 ELSE 0)))

\* bit_out::bic_encode_u16_cm over arr[off .. off+sz-1] (0-based), bounds lo..hi
RECURSIVE bic_encode_u16_cm(_, _, _, _, _)
bic_encode_u16_cm(arr, off, sz, lo, hi) ==
    IF sz = 0 THEN << >>
    ELSE With(arr[off + (sz \div 2) + 1], LAMBDA val :
            bic_code(val - lo - (sz \div 2), hi - lo - sz + 1)
            \o bic_encode_u16_cm(arr, off, sz \div 2, lo,
                                 (val + 65535) % 65536)
            \o bic_encode_u16_cm(arr, off + (sz \div 2) + 1,
                                 sz - (sz \div 2) - 1, (val + 1) % 65536, hi))

(* ------------------------------ bit_in --------------------------------- *)
(* A bit reader is the stream, the byte position where the reader was      *)
(* created and the number of bits taken.  Words are loaded when their      *)
(* first bit is needed, so the decoder has advanced by whole words.        *)

\* bit number k (0-based) of the words the reader loads from byte position
\* base on
BitAt(sw, b, base, k) == WordBit(sw, b, base + 4 * (k \div 32), k % 32)

\* bit_in::get_bits: count bits from bit position p, lowest first
RECURSIVE get_bits(_, _, _, _, _)
get_bits(sw, b, base, p, count) ==
    IF count <= 1 THEN (IF count = 0 THEN 0 ELSE BitAt(sw, b, base, p))
    ELSE get_bits(sw, b, base, p, count \div 2)
         + Pow2(count \div 2)
           * get_bits(sw, b, base, p + count \div 2, count - count \div 2)

\* decoder position after a reader that took nbits bits
bit_in_end(base, nbits) == base + 4 * ((nbits + 31) \div 32)

\* number of zero bits from bit position p up to the next one bit
RECURSIVE zero_run(_, _, _, _)
zero_run(sw, b, base, p) ==
    IF BitAt(sw, b, base, p) = 1 THEN 0 ELSE 1 + zero_run(sw, b, base, p + 1)

\* bit_in::gamma at bit position p: [val, p] with the position after it
bit_in_gamma(sw, b, base, p) ==
    With(zero_run(sw, b, base, p), LAMBDA zero_bits :
        [val |-> get_bits(sw, b, base, p + zero_bits + 1, zero_bits)
                 + Pow2(zero_bits),
         p   |-> p + 2 * zero_bits + 1])

\* bic_extra_bit without the correction of lo1 for an odd count of values
bic_extra_bit_even(val, r, logv) ==
    With((Pow2(logv + 1) - r - 1) \div 2, LAMBDA half_c :
        \/ val <= (r \div 2) - half_c
        \/ val >= (r \div 2) + half_c + 1)

\* the first logv bits val of a value in [0..r] are followed by one more bit
bic_extra_bit(val, r, logv) ==
    With((Pow2(logv + 1) - r - 1) \div 2, LAMBDA half_c :
        \/ val <= (r \div 2) - half_c - ((r + 1) % 2)
        \/ val >= (r \div 2) + half_c + 1)

\* one interpolated value in [0..r] read at p: [val, p]
bic_read(sw, b, base, p, r) ==
    IF r = 0 THEN [val |-> 0, p |-> p]
    ELSE With(bit_scan_reverse32(r + 1), LAMBDA logv :
         With(get_bits(sw, b, base, p, logv), LAMBDA val :
            IF bic_extra_bit(val, r, logv)
            THEN [val |-> val + Pow2(logv) * get_bits(sw, b, base, p + logv, 1),
                  p   |-> p + logv + 1]
            ELSE [val |-> val, p |-> p + logv]))

RECURSIVE bic_decode_u16_cm(_, _, _, _, _, _, _)

\* the values arr decoded so far, followed by those of the right half r
bic_decoded(arr, r) == CASE r = r -> [arr |-> arr \o r.arr, p |-> r.p]

\* the middle value val and the left half left = [arr, p] of a range
\* decoded, the right half is decoded from left.p on
bic_decode_right(sw, b, base, sz, hi, val, left) ==
    CASE left = left ->
        bic_decoded(left.arr \o << val >>,
                    bic_decode_u16_cm(sw, b, base, left.p,
                                      sz - (sz \div 2) - 1,
                                      (val + 1) % 65536, hi))

\* the middle value rd = [val, p] of a range read, the left half is
\* decoded from rd.p on
bic_decode_mid(sw, b, base, sz, lo, hi, rd) ==
    CASE rd = rd ->
        bic_decode_right(sw, b, base, sz, hi, rd.val + lo + (sz \div 2),
                         bic_decode_u16_cm(sw, b, base, rd.p, sz \div 2, lo,
                             (rd.val + lo + (sz \div 2) + 65535) % 65536))

\* bit_in::bic_decode_u16_cm: [arr, p], arr the sz decoded values in order
bic_decode_u16_cm(sw, b, base, p, sz, lo, hi) ==
    IF sz = 0 THEN [arr |-> << >>, p |-> p]
    ELSE bic_decode_mid(sw, b, base, sz, lo, hi,
                        bic_read(sw, b, base, p, hi - lo - sz + 1))

(* ------------------------------ blocks --------------------------------- *)
(* Container primitives of bmfunc.h / bmconst.h, as the serializer uses    *)
(* them.  A GAP block is the sequence << head, e1, .., eR >>: head holds   *)
(* the first run's value in bit 0, the GAP level in bits 1-2 and R in the  *)
(* bits above; e1 < .. < eR = gap_max_bits-1 are the last positions of the *)
(* runs, whose values alternate.                                           *)

\* 16-bit words a bit block is worth: set_block_size*sizeof(word)/sizeof(gap_word_t)
gap_equiv_len == bit_block_bytes \div 2

\* capacity of the largest GAP level (scaled with the block)
gap_max_buff_len == gap_equiv_len - 2

\* GAP level capacities bm::gap_len_table (scaled with the block)
glevel_len == << gap_max_buff_len \div 4, gap_max_buff_len \div 2,
                 (3 * gap_max_buff_len) \div 4, gap_max_buff_len >>

\* largest array the interpolative coder is tried on (scaled with the block)
bie_cut_off == gap_max_bits \div 4

\* bits of a set of positions that fall into word j, renumbered from 0
WordOf(S, j) == { k \in 0 .. (word_bits - 1) : (j * word_bits + k) \in S }

\* word j of a bit block is not zero
WordNZ(S, j) == \E k \in S : k \div word_bits = j

\* last positions of the runs of S in 0 .. gap_max_bits-1, in order
RunEnds(S) ==
    SortedRange({ e \in 0 .. (gap_max_bits - 2) : (e \in S) # ((e + 1) \in S) }
                \cup {gap_max_bits - 1}, 0, gap_max_bits - 1)

\* bm::gap_calc_level: smallest level whose capacity holds len words, else -1
gap_calc_level(len) ==
    IF \E l \in 1 .. 4 : len <= glevel_len[l]
    THEN (CHOOSE l \in 1 .. 4 :
            /\ len <= glevel_len[l]
            /\ \A m \in 1 .. (l - 1) : len > glevel_len[m]) - 1
    ELSE -1

\* GAP head word: first run's value, level, number of runs
gap_head(startbit, level, runs) == startbit + 2 * level + 8 * runs

\* the GAP block of a set of positions, at the level that fits it
gap_block_of(S) ==
    LET ends == RunEnds(S)
        lvl  == gap_calc_level(Len(ends) + 1)
    IN  << gap_head(IF 0 \in S THEN 1 ELSE 0, IF lvl < 0 THEN 3 ELSE lvl,
                    Len(ends)) >> \o ends

\* bm::gap_length: words of a GAP block, from its head
gap_length(head) == (head \div 8) + 1

\* positions covered by the runs whose ends are ends[1..n], first run of
\* value startbit (gap_add_to_bitset / gap_convert_to_bitset)
gap_bits(startbit, ends) ==
    { k \in AllBits :
        \E i \in 1 .. Len(ends) :
            /\ k <= ends[i]
            /\ (i = 1 \/ k > ends[i - 1])
            /\ (i % 2 = 1) = (startbit = 1) }

\* bm::bit_block_change_bc32: number of runs of the bit block
bit_gaps_of(S) == Len(RunEnds(S))

\* bm::calc_block_digest0: the waves of the block that hold a set bit
calc_block_digest0(S) ==
    { w \in 0 .. (block_waves - 1) :
        \E k \in S : k \div (word_bits * set_block_digest_wave_size) = w }

(* ------------------------------ serializer: GAP blocks ----------------- *)
(* Every emitter returns the bytes it leaves in the encoder, the block     *)
(* type code first.  A speculative encoding that is rolled back with       *)
(* set_pos leaves the bytes of the fallback.                               *)

\* positions of the set bits (of the clear bits when inverted), in order:
\* bm::gap_convert_to_arr / bm::bit_convert_to_arr
convert_to_arr(S, inverted) ==
    SortedRange(IF inverted THEN AllBits \ S ELSE S, 0, gap_max_bits - 1)

\* encoder::put_prefixed_array_16 with the count encoded
put_prefixed_array_16(c, arr) == put_8(c) \o put_16(Len(arr)) \o put_16_arr(arr)

\* plain GAP block: the head and all run ends but the last
plain_gap_block(gap) ==
    put_8(set_block_gap) \o put_16_arr(SubSeq(gap, 1, gap_length(gap[1]) - 1))

\* the speculative record enc, or after enc.set_pos the record fallback
\* when enc is longer than limit bytes
rollback_if_longer(enc, limit, fallback) ==
    IF Len(enc) > limit THEN fallback ELSE enc

\* serializer::interpolated_encode_gap_block
interpolated_encode_gap_block(gap) ==
    IF gap_length(gap[1]) > 3
    THEN rollback_if_longer(
            put_8(set_block_gap_bienc) \o put_16(gap[1]) \o put_16(gap[2])
            \o bit_out_bytes(bic_encode_u16_cm(gap, 2, gap_length(gap[1]) - 3,
                                               gap[2], gap_max_bits - 1)),
            (gap_length(gap[1]) - 1) * 2, plain_gap_block(gap))
    ELSE plain_gap_block(gap)

\* bm::for_each_dgap with the gamma encoder: the first run end plus one,
\* then the differences of the run ends, the last run end left out
RECURSIVE for_each_dgap(_, _)
for_each_dgap(gap, i) ==
    IF i > gap_length(gap[1]) - 1 THEN << >>
    ELSE gamma(IF i = 2 THEN gap[2] + 1 ELSE gap[i] - gap[i - 1])
         \o for_each_dgap(gap, i + 1)

\* serializer::gamma_gap_block
gamma_gap_block(gap, clevel) ==
    IF gap_length(gap[1]) > 3 /\ clevel > 3
    THEN rollback_if_longer(
            put_8(set_block_gap_egamma) \o put_16(gap[1])
            \o bit_out_bytes(for_each_dgap(gap, 2)),
            (gap_length(gap[1]) - 1) * 2, plain_gap_block(gap))
    ELSE plain_gap_block(gap)

\* gamma codes of the differences arr[i] - arr[i-1], i = from .. Len(arr)
RECURSIVE gamma_deltas(_, _)
gamma_deltas(arr, i) ==
    IF i > Len(arr) THEN << >>
    ELSE gamma(arr[i] - arr[i - 1]) \o gamma_deltas(arr, i + 1)

\* the plain array record of serializer::gamma_gap_array and
\* interpolated_gap_array
plain_gap_array(arr, inverted) ==
    put_prefixed_array_16(IF inverted THEN set_block_arrgap_inv
                                      ELSE set_block_arrgap, arr)

\* serializer::gamma_gap_array
gamma_gap_array(arr, clevel, inverted) ==
    IF clevel > 3 /\ Len(arr) > 1
    THEN rollback_if_longer(
            put_8(IF inverted THEN set_block_arrgap_egamma_inv
                              ELSE set_block_arrgap_egamma)
            \o bit_out_bytes(gamma(Len(arr)) \o gamma(arr[1] + 1)
                             \o gamma_deltas(arr, 2)),
            1 + Len(arr) * 2, plain_gap_array(arr, inverted))
    ELSE plain_gap_array(arr, inverted)

\* serializer::interpolated_gap_array
interpolated_gap_array(arr, inverted) ==
    IF Len(arr) > 4
    THEN rollback_if_longer(
            put_8(IF inverted THEN set_block_arrgap_bienc_inv
                              ELSE set_block_arrgap_bienc)
            \o put_16(arr[1]) \o put_16(arr[Len(arr)])
            \o bit_out_bytes(gamma(Len(arr) - 4)
                  \o bic_encode_u16_cm(arr, 1, Len(arr) - 2,
                                       arr[1], arr[Len(arr)])),
            1 + Len(arr) * 2, plain_gap_array(arr, inverted))
    ELSE plain_gap_array(arr, inverted)

\* gap_best_encoding without the interpolative array form of level 5
gap_best_encoding_gamma(len, bc, clevel) ==
    IF clevel <= 2 THEN set_block_gap
    ELSE IF bc = 1 THEN set_block_bit_1bit
    ELSE IF bc < len THEN
        (IF clevel < 4 THEN set_block_arrgap
         ELSE set_block_arrgap_egamma)
    ELSE IF gap_max_bits - bc < len THEN
        (IF clevel < 4 THEN set_block_arrgap_inv
         ELSE IF clevel = 4 THEN set_block_arrgap_egamma_inv
         ELSE set_block_arrgap_bienc_inv)
    ELSE IF len < 6 THEN set_block_gap
    ELSE IF clevel = 4 THEN set_block_gap_egamma
    ELSE set_block_gap_bienc

\* the choice of serializer::find_gap_best_encoding for a GAP block of len
\* words with bc bits set
gap_best_encoding(len, bc, clevel) ==
    IF clevel <= 2 THEN set_block_gap
    ELSE IF bc = 1 THEN set_block_bit_1bit
    ELSE IF bc < len THEN
        (IF clevel < 4 THEN set_block_arrgap
         ELSE IF clevel = 4 THEN set_block_arrgap_egamma
         ELSE set_block_arrgap_bienc)
    ELSE IF gap_max_bits - bc < len THEN
        (IF clevel < 4 THEN set_block_arrgap_inv
         ELSE IF clevel = 4 THEN set_block_arrgap_egamma_inv
         ELSE set_block_arrgap_bienc_inv)
    ELSE IF len < 6 THEN set_block_gap
    ELSE IF clevel = 4 THEN set_block_gap_egamma
    ELSE set_block_gap_bienc

\* serializer::find_gap_best_encoding, for the GAP block of the set S
find_gap_best_encoding(S, clevel) ==
    gap_best_encoding(Len(RunEnds(S)) + 1, Cardinality(S), clevel)

\* the record serializer::encode_gap_block writes for the choice enc_choice
gap_block_record(S, gap, clevel, enc_choice) ==
    CASE enc_choice = set_block_bit_1bit ->
            put_8(set_block_bit_1bit) \o put_16(convert_to_arr(S, FALSE)[1])
      [] enc_choice \in {set_block_arrgap, set_block_arrgap_egamma} ->
            gamma_gap_array(convert_to_arr(S, FALSE), clevel, FALSE)
      [] enc_choice \in {set_block_arrgap_inv,
                         set_block_arrgap_egamma_inv} ->
            gamma_gap_array(convert_to_arr(S, TRUE), clevel, TRUE)
      [] enc_choice = set_block_gap_bienc ->
            interpolated_encode_gap_block(gap)
      [] enc_choice = set_block_arrgap_bienc ->
            interpolated_gap_array(convert_to_arr(S, FALSE), FALSE)
      [] enc_choice = set_block_arrgap_bienc_inv ->
            interpolated_gap_array(convert_to_arr(S, TRUE), TRUE)
      [] OTHER -> gamma_gap_block(gap, clevel)

\* serializer::encode_gap_block, for the GAP block gap of the set S
encode_gap_block(S, gap, clevel) ==
    gap_block_record(S, gap, clevel, find_gap_best_encoding(S, clevel))

(* ------------------------------ serializer: bit blocks ----------------- *)

\* the bytes of words first .. last of the bit block S (encoder::put_32 array)
put_words(S, first, last) ==
    put_bitset({ k - first * word_bits :
                   k \in { x \in S : x \div word_bits \in first .. last } },
               4 * (last - first + 1))

\* plain bit block: encoder::put_prefixed_array_32(set_block_bit, ...)
plain_bit_block(S) == put_8(set_block_bit) \o put_words(S, 0, set_block_size - 1)

\* end of the run of non-zero words that starts at word j-1; a zero word is
\* absorbed when one of the two words after it is not zero
RECURSIVE nz_run_end(_, _)
nz_run_end(S, j) ==
    IF j >= set_block_size THEN j
    ELSE IF WordNZ(S, j) THEN nz_run_end(S, j + 1)
    ELSE IF \/ (j + 1 < set_block_size /\ WordNZ(S, j + 1))
            \/ (j + 2 < set_block_size /\ WordNZ(S, j + 2))
         THEN nz_run_end(S, j + 2)
         ELSE j

\* end of the run of zero words that starts at word j-1
RECURSIVE z_run_end(_, _)
z_run_end(S, j) ==
    IF j >= set_block_size \/ WordNZ(S, j) THEN j ELSE z_run_end(S, j + 1)

\* the runs of serializer::encode_bit_interval from word i on
RECURSIVE bit_interval_runs(_, _)
bit_interval_runs(S, i) ==
    IF i >= set_block_size THEN << >>
    ELSE IF ~WordNZ(S, i)
         THEN LET j == z_run_end(S, i + 1)
              IN  put_16(j - i) \o bit_interval_runs(S, j)
         ELSE LET j == nz_run_end(S, i + 1)
              IN  put_16(j - i) \o put_words(S, i, j - 1)
                  \o bit_interval_runs(S, j)

\* serializer::encode_bit_interval
encode_bit_interval(S) ==
    put_8(set_block_bit_0runs) \o put_8(IF WordNZ(S, 0) THEN 1 ELSE 0)
    \o bit_interval_runs(S, 0)

\* bm::bit_count_nonzero_size: bytes of the zero-runs form of the block
bit_count_nonzero_size(S) == Len(encode_bit_interval(S)) - 1

\* bytes of the digest form: bit_model_d0_size_
bit_model_d0_size(S) ==
    8 + set_block_digest_wave_size * Cardinality(calc_block_digest0(S)) * 4

\* the words of the waves of digest d0 from wave w on, in wave order
RECURSIVE digest_waves(_, _, _)
digest_waves(S, d0, w) ==
    IF w >= block_waves THEN << >>
    ELSE (IF w \in d0
          THEN put_words(S, w * set_block_digest_wave_size,
                         (w + 1) * set_block_digest_wave_size - 1)
          ELSE << >>) \o digest_waves(S, d0, w + 1)

\* serializer::encode_bit_digest
encode_bit_digest(S) ==
    IF calc_block_digest0(S) # 0 .. (block_waves - 1)
    THEN IF bit_count_nonzero_size(S) < bit_model_d0_size(S)
         THEN encode_bit_interval(S)
         ELSE put_8(set_block_bit_digest0)
              \o put_bitset(calc_block_digest0(S), 8)
              \o digest_waves(S, calc_block_digest0(S), 0)
    ELSE IF bit_count_nonzero_size(S) < bit_block_bytes
         THEN encode_bit_interval(S)
         ELSE plain_bit_block(S)

\* bm::bit_convert_to_arr: the array, or empty when longer than dest_len
bit_convert_to_arr(S, dest_len, inverted) ==
    With(convert_to_arr(S, inverted), LAMBDA arr :
         IF Len(arr) > dest_len THEN << >> ELSE arr)

\* serializer::encode_bit_array
encode_bit_array(S, inverted) ==
    With(bit_convert_to_arr(S, gap_max_bits \div 2, inverted), LAMBDA arr :
         IF Len(arr) > 0
         THEN put_prefixed_array_16(IF inverted THEN set_block_arrbit_inv
                                                ELSE set_block_arrbit, arr)
         ELSE encode_bit_digest(S))

\* bm::bit_to_gap: the GAP form of a bit block, level bits clear
bit_to_gap(S) ==
    With(RunEnds(S), LAMBDA ends :
         << gap_head(IF 0 \in S THEN 1 ELSE 0, 0, Len(ends)) >> \o ends)

\* serializer::gamma_arr_bit_block
gamma_arr_bit_block(S, clevel, inverted) ==
    With(bit_convert_to_arr(S, gap_equiv_len, inverted), LAMBDA arr :
         IF Len(arr) > 0 THEN gamma_gap_array(arr, clevel, inverted)
         ELSE plain_bit_block(S))

\* serializer::bienc_arr_bit_block
bienc_arr_bit_block(S, inverted) ==
    With(bit_convert_to_arr(S, gap_equiv_len, inverted), LAMBDA arr :
         IF Len(arr) > 0 THEN interpolated_gap_array(arr, inverted)
         ELSE encode_bit_digest(S))

\* the record of serializer::bienc_gap_bit_block for the GAP form gap of
\* the block, before the size check
bitgap_bienc_record(gap) ==
    put_8(set_block_bitgap_bienc) \o put_8(gap[1] % 2)
    \o put_16(Len(gap) - 1) \o put_16(gap[2])
    \o bit_out_bytes(bic_encode_u16_cm(gap, 2, Len(gap) - 3, gap[2],
                                       gap_max_bits - 1))

\* serializer::bienc_gap_bit_block
bienc_gap_bit_block(S) ==
    With(bitgap_bienc_record(bit_to_gap(S)), LAMBDA enc :
         IF Len(enc) >= bit_block_bytes THEN encode_bit_digest(S) ELSE enc)

\* the record of serializer::interpolated_arr_bit_block for the array arr
\* of the block, before the size checks
arr_bienc_record(arr, inverted) ==
    put_8(IF inverted THEN set_block_arr_bienc_inv ELSE set_block_arr_bienc)
    \o put_16(arr[1]) \o put_16(arr[Len(arr)]) \o put_16(Len(arr))
    \o bit_out_bytes(bic_encode_u16_cm(arr, 1, Len(arr) - 2,
                                       arr[1], arr[Len(arr)]))

\* serializer::interpolated_arr_bit_block
interpolated_arr_bit_block(S, inverted) ==
    With(bit_convert_to_arr(S, gap_max_bits \div 2, inverted), LAMBDA arr :
         IF Len(arr) = 0 THEN encode_bit_digest(S)
         ELSE With(arr_bienc_record(arr, inverted), LAMBDA enc :
              IF Len(enc) >= bit_block_bytes THEN encode_bit_digest(S)
              ELSE IF calc_block_digest0(S) # 0 .. (block_waves - 1)
                      /\ Len(enc) > bit_model_d0_size(S)
                   THEN encode_bit_digest(S)
                   ELSE enc))

(* ------------------------------ serializer: classifier ----------------- *)

\* the model with the least score, the first one among equals; the plain
\* bit block unless a score is below gap_max_bits (the loop that ends
\* find_bit_best_encoding)
RECURSIVE best_model_last(_, _, _, _)
best_model_last(models, i, min_score, model) ==
    IF i > Len(models) THEN model
    ELSE IF models[i][2] <= min_score
         THEN best_model_last(models, i + 1, models[i][2], models[i][1])
         ELSE best_model_last(models, i + 1, min_score, model)

RECURSIVE best_model(_, _, _, _)
best_model(models, i, min_score, model) ==
    IF i > Len(models) THEN model
    ELSE IF models[i][2] < min_score
         THEN best_model(models, i + 1, models[i][2], models[i][1])
         ELSE best_model(models, i + 1, min_score, model)

\* add_model for the zero-runs and digest forms: bit_model_0run_size_ and
\* bit_model_d0_size_ in bits, the digest form unless the digest is full
size_models(full_digest, run_size, d0_size) ==
    << << set_block_bit, gap_max_bits >>,
       << set_block_bit_0runs, run_size * 8 >> >>
    \o (IF full_digest THEN << >>
        ELSE << << set_block_bit_digest0, d0_size * 8 >> >>)

\* add_model for the array forms
arr_models(bc, inverted_bc) ==
    << << set_block_arrbit, (2 + bc * 2) * 8 >>,
       << set_block_arrbit_inv, (2 + inverted_bc * 2) * 8 >> >>

\* the models serializer::find_bit_best_encoding_l5 adds from the
\* bit count and the count of runs
l5_models(bc, inverted_bc, bit_gaps) ==
    arr_models(bc, inverted_bc)
    \o (IF bit_gaps > 3 /\ bit_gaps < gap_max_buff_len
        THEN << << set_block_gap_bienc, 32 + (bit_gaps - 1) * 4 >> >>
        ELSE << >>)
    \o (IF bc < bit_gaps /\ bc < gap_equiv_len
        THEN << << set_block_arrgap_bienc, 16 * 3 + bc * 4 >> >>
        ELSE IF inverted_bc < bit_gaps /\ inverted_bc < gap_equiv_len
        THEN << << set_block_arrgap_bienc_inv, 16 * 3 + inverted_bc * 4 >> >>
        ELSE IF bc >= gap_equiv_len /\ bc < bie_cut_off
        THEN << << set_block_arr_bienc, 16 * 3 + bc * 4 >> >>
        ELSE IF inverted_bc > 3 /\ inverted_bc >= gap_equiv_len
                /\ inverted_bc < bie_cut_off
        THEN << << set_block_arr_bienc_inv, 16 * 3 + inverted_bc * 4 >> >>
        ELSE << >>)
    \o (IF bit_gaps >= gap_max_buff_len /\ bit_gaps < bie_cut_off
        THEN << << set_block_bitgap_bienc, 16 * 4 + (bit_gaps - 2) * 4 >> >>
        ELSE << >>)

\* the models serializer::find_bit_best_encoding adds at levels 3 and 4
\* from the bit count and the count of runs
l4_models(clevel, bc, inverted_bc, bit_gaps) ==
    (IF clevel >= 3 THEN arr_models(bc, inverted_bc) ELSE << >>)
    \o (IF clevel = 4 /\ bit_gaps > 3 /\ bit_gaps < gap_max_buff_len
        THEN << << set_block_gap_egamma, 16 + (bit_gaps - 1) * 6 >> >>
        ELSE << >>)
    \o (IF clevel = 4 /\ bc < bit_gaps /\ bc < gap_equiv_len
        THEN << << set_block_arrgap_egamma, 16 + bc * 6 >> >>
        ELSE << >>)
    \o (IF clevel = 4 /\ inverted_bc > 3 /\ inverted_bc < bit_gaps
           /\ inverted_bc < gap_equiv_len
        THEN << << set_block_arrgap_egamma_inv, 16 + inverted_bc * 6 >> >>
        ELSE << >>)

\* the early returns on the digest and the bit count, then the models given
bit_best_model(S, bc, models) ==
    IF calc_block_digest0(S) = {} THEN set_block_azero
    ELSE IF bc = 1 THEN set_block_bit_1bit
    ELSE IF gap_max_bits - bc = 0 THEN set_block_aone
    ELSE best_model(size_models(calc_block_digest0(S) = 0 .. (block_waves - 1),
                                bit_count_nonzero_size(S),
                                bit_model_d0_size(S)) \o models,
                    1, gap_max_bits, set_block_bit)

\* serializer::find_bit_best_encoding_l5
find_bit_best_encoding_l5(S) ==
    bit_best_model(S, Cardinality(S),
                   l5_models(Cardinality(S), gap_max_bits - Cardinality(S),
                             bit_gaps_of(S)))

\* serializer::find_bit_best_encoding
find_bit_best_encoding(S, clevel) ==
    IF clevel >= 5 THEN find_bit_best_encoding_l5(S)
    ELSE IF clevel <= 1 THEN set_block_bit
    ELSE bit_best_model(S, Cardinality(S),
                        l4_models(clevel, Cardinality(S),
                                  gap_max_bits - Cardinality(S),
                                  IF clevel >= 4 THEN bit_gaps_of(S)
                                  ELSE gap_max_bits - 1))

\* the bit-block switch of serializer::serialize for the model chosen,
\* other than azero and aone
bit_block_record(S, clevel, model) ==
    CASE model = set_block_bit_1bit ->
            put_8(set_block_bit_1bit) \o put_16(convert_to_arr(S, FALSE)[1])
      [] model = set_block_arrbit -> encode_bit_array(S, FALSE)
      [] model = set_block_arrbit_inv -> encode_bit_array(S, TRUE)
      [] model = set_block_gap_egamma ->
            gamma_gap_block(bit_to_gap(S), clevel)
      [] model = set_block_bit_0runs -> encode_bit_interval(S)
      [] model = set_block_arrgap_egamma ->
            gamma_arr_bit_block(S, clevel, FALSE)
      [] model = set_block_arrgap_egamma_inv ->
            gamma_arr_bit_block(S, clevel, TRUE)
      [] model = set_block_arrgap_bienc -> bienc_arr_bit_block(S, FALSE)
      [] model = set_block_arrgap_bienc_inv -> bienc_arr_bit_block(S, TRUE)
      [] model = set_block_arr_bienc -> interpolated_arr_bit_block(S, FALSE)
      [] model = set_block_arr_bienc_inv -> interpolated_arr_bit_block(S, TRUE)
      [] model = set_block_gap_bienc ->
            interpolated_encode_gap_block(bit_to_gap(S))
      [] model = set_block_bitgap_bienc -> bienc_gap_bit_block(S)
      [] model = set_block_bit_digest0 -> encode_bit_digest(S)
      [] OTHER -> plain_bit_block(S)

\* the bit-block branch of serializer::serialize: classify, then encode
encode_bit_block(S, clevel) ==
    bit_block_record(S, clevel, find_bit_best_encoding(S, clevel))

(* ------------------------------ bit-vector ----------------------------- *)
(* A vector is a function from the indexes of its allocated blocks to      *)
(* blocks.  A block is [t, bits]: t is "bit" (bit block), "gap" (GAP       *)
(* block) or "full" (the shared all-ones block); an absent index is a NULL *)
(* block pointer.                                                          *)

null_block == [t |-> "null", bits |-> {}]

full_block == [t |-> "full", bits |-> AllBits]

\* blocks_manager::get_block
get_block(v, i) == IF i \in DOMAIN v THEN v[i] ELSE null_block

\* the bits of block i, whatever its form
block_bits(v, i) == get_block(v, i).bits

\* blocks_manager::set_block / zero_block: v with block i replaced (removed
\* when blk is the NULL block)
set_block(v, i, blk) ==
    [k \in (IF blk.t = "null" THEN DOMAIN v \ {i} ELSE DOMAIN v \cup {i}) |->
        IF k = i THEN blk ELSE v[k]]

\* bm::check_block_zero
check_block_zero(blk, deep_scan) ==
    CASE blk.t = "null" -> TRUE
      [] blk.t = "full" -> FALSE
      [] blk.t = "gap"  -> blk.bits = {}
      [] OTHER          -> deep_scan /\ blk.bits = {}

\* bm::check_block_one
check_block_one(blk, deep_scan) ==
    CASE blk.t = "null" -> FALSE
      [] blk.t = "gap"  -> blk.bits = AllBits
      [] blk.t = "full" -> TRUE
      [] OTHER          -> deep_scan /\ blk.bits = AllBits

\* blocks_manager::find_next_nz_block(nb, false): the first allocated block
\* at or after nb, set_total_blocks when there is none
find_next_nz_block(v, nb) ==
    IF \E k \in DOMAIN v : k >= nb
    THEN CHOOSE k \in DOMAIN v : k >= nb /\ \A m \in DOMAIN v : m >= nb => k <= m
    ELSE set_total_blocks

\* the vectors v and w hold the same bits
SameBits(v, w) ==
    \A i \in DOMAIN v \cup DOMAIN w : block_bits(v, i) = block_bits(w, i)

(* ------------------------------ serializer::serialize ------------------ *)

\* BM_SER_NEXT_GRP with a count written for the run of one block too
ser_next_grp_counted(nb, b_1, b_8, b_16, b_32) ==
    IF nb < 256 THEN put_8(b_8) \o put_8(nb)
    ELSE IF nb < 65536 THEN put_8(b_16) \o put_16(nb)
    ELSE put_8(b_32) \o put_32(nb)

\* BM_SER_NEXT_GRP: the token for a run of nb equal blocks
ser_next_grp(nb, b_1, b_8, b_16, b_32) ==
    IF nb = 1 THEN put_8(b_1)
    ELSE IF nb < 256 THEN put_8(b_8) \o put_8(nb)
    ELSE IF nb < 65536 THEN put_8(b_16) \o put_16(nb)
    ELSE put_8(b_32) \o put_32(nb)

\* the token of a run of nb zero blocks (zero_block: of serialize): the
\* one byte (1u << 7) | nb when nb > 1 && nb < 128
zero_run_token(nb) ==
    IF nb > 1 /\ nb < 128 THEN put_8(128 + nb)
    ELSE ser_next_grp(nb, set_block_1zero, set_block_8zero, set_block_16zero,
                      set_block_32zero)

\* the token of a run of nb blocks of ones (full_block: of serialize)
one_run_token(nb) ==
    ser_next_grp(nb, set_block_1one, set_block_8one, set_block_16one,
                 set_block_32one)

\* first block after i that is not all ones (deep scan), set_total_blocks
\* when all are
RECURSIVE full_run_end(_, _)
full_run_end(v, j) ==
    IF j >= set_total_blocks \/ ~check_block_one(get_block(v, j), TRUE)
    THEN j
    ELSE full_run_end(v, j + 1)

\* bm::ByteOrder
BigEndian == 0

LittleEndian == 1

\* globals::byte_order() of the machine the serializer and the readers
\* run on
byte_order == LittleEndian

\* serializer::encode_header
encode_header(gap_serial, byte_order_serial) ==
    put_8(BM_HM_DEFAULT
          + (IF byte_order_serial THEN 0 ELSE BM_HM_NO_BO)
          + (IF gap_serial THEN 0 ELSE BM_HM_NO_GAPL))
    \o (IF byte_order_serial THEN put_8(byte_order) ELSE << >>)
    \o (IF gap_serial THEN put_16_arr(glevel_len) ELSE << >>)

\* the state w of the block loop of serializer::serialize is
\* [out, zeroed, i, done]: the bytes written, the blocks freed by
\* zero_block, the block index, whether the loop is left.
\* ser_then: the bytes out written and the blocks z freed, the loop goes
\* on at block i
ser_then(w, out, z, i) ==
    [w EXCEPT !.out = @ \o out, !.zeroed = @ \cup z, !.i = i]

\* the loop left with set_block_end written after the bytes out
ser_end_terminated(w, out) ==
    [w EXCEPT !.out = (@ \o out) \o put_8(set_block_end), !.done = TRUE]

\* the bytes out written and the loop left
ser_end(w, out) == [w EXCEPT !.out = @ \o out, !.done = TRUE]

\* one pass of the block loop of serializer::serialize
serialize_pass(v, clevel, free_, w) ==
    IF w.i >= set_total_blocks THEN ser_end(w, put_8(set_block_end))
    ELSE
    With(get_block(v, w.i), LAMBDA blk :
    With(IF blk.t = "bit" THEN find_bit_best_encoding(blk.bits, clevel)
         ELSE 255, LAMBDA model :
    IF check_block_zero(blk, FALSE) \/ model = set_block_azero THEN
        With(find_next_nz_block(v, w.i + 1), LAMBDA next_nb :
        IF next_nb = set_total_blocks
        THEN ser_end(w, put_8(set_block_azero))
        ELSE ser_then(w, zero_run_token(next_nb - w.i), {}, next_nb))
    ELSE IF check_block_one(blk, FALSE) \/ model = set_block_aone THEN
        With(full_run_end(v, w.i + 1), LAMBDA j :
        IF j = set_total_blocks
        THEN ser_end(w, put_8(set_block_aone) \o put_8(set_block_end))
        ELSE ser_then(w, one_run_token(j - w.i), {}, j))
    ELSE IF blk.t = "gap" THEN
        ser_then(w, encode_gap_block(blk.bits, gap_block_of(blk.bits), clevel),
                 IF free_ THEN {w.i} ELSE {}, w.i + 1)
    ELSE
        ser_then(w, bit_block_record(blk.bits, clevel, model),
                 IF free_ /\ model # set_block_bit_1bit THEN {w.i} ELSE {},
                 w.i + 1)))

\* the block loop of serializer::serialize from the state w on
RECURSIVE serialize_blocks(_, _, _, _)
serialize_blocks(v, clevel, free_, w) ==
    IF w.done THEN w
    ELSE serialize_blocks(v, clevel, free_, serialize_pass(v, clevel, free_, w))

\* serializer::serialize(bv, buf, buf_size): [out, zeroed]
serialize(v, clevel, gap_serial, byte_order_serial, free_) ==
    serialize_blocks(v, clevel, free_,
        [out |-> encode_header(gap_serial, byte_order_serial), zeroed |-> {},
         i |-> 0, done |-> FALSE])

\* serializer::serialize(bv, buf, bv_stat), entered with the destructive
\* flag free_: "optimize_ = free_ = false" comes before the blocks are
\* written
serialize_buffer(v, clevel, gap_serial, byte_order_serial, free_) ==
    serialize(v, clevel, gap_serial, byte_order_serial, FALSE)

(* ------------------------------ deseriaizer_base ----------------------- *)
(* Payload readers.  Each takes the decoder kind sw (TRUE for the byte      *)
(* swapping decoder), the stream b and the decoder position pos after the  *)
(* block type code, and returns the value read and the position after it.  *)

\* gamma_sums without the differences summed up: every value is taken as
\* an offset from prev
RECURSIVE gamma_sums_unsummed(_, _, _, _, _, _)
gamma_sums_unsummed(sw, b, base, p, sz, prev) ==
    IF sz = 0 THEN [arr |-> << >>, p |-> p]
    ELSE IF sz = 1
    THEN With(bit_in_gamma(sw, b, base, p), LAMBDA g :
            [arr |-> << (prev + g.val) % 65536 >>, p |-> g.p])
    ELSE With(gamma_sums_unsummed(sw, b, base, p, sz \div 2, prev),
              LAMBDA left :
         With(gamma_sums_unsummed(sw, b, base, left.p, sz - sz \div 2, prev),
              LAMBDA right :
            [arr |-> left.arr \o right.arr, p |-> right.p]))

\* sz gamma coded values from bit position p on, the differences summed up
\* from prev: [arr, p].  The values are read in order, the first half of
\* them before the second
RECURSIVE gamma_sums(_, _, _, _, _, _)
gamma_sums(sw, b, base, p, sz, prev) ==
    IF sz = 0 THEN [arr |-> << >>, p |-> p]
    ELSE IF sz = 1
    THEN With(bit_in_gamma(sw, b, base, p), LAMBDA g :
            [arr |-> << (prev + g.val) % 65536 >>, p |-> g.p])
    ELSE With(gamma_sums(sw, b, base, p, sz \div 2, prev), LAMBDA left :
         With(gamma_sums(sw, b, base, left.p, sz - sz \div 2,
                         left.arr[Len(left.arr)]),
              LAMBDA right :
            [arr |-> left.arr \o right.arr, p |-> right.p]))

\* a bit reader's result r = [arr, p] as the result [arr, pos] of a reader
\* of the decoder, the bit reader created at base
arr_at(r, base) == [arr |-> r.arr, pos |-> bit_in_end(base, r.p)]

\* deseriaizer_base::read_id_list: [arr, pos]
read_id_list(sw, b, pos, block_type) ==
    CASE block_type = set_block_bit_1bit ->
            [arr |-> << get_16(sw, b, pos) >>, pos |-> pos + 2]
      [] block_type \in {set_block_arrgap, set_block_arrgap_inv} ->
            [arr |-> get_16_arr(sw, b, pos + 2, get_16(sw, b, pos)),
             pos |-> pos + 2 + 2 * get_16(sw, b, pos)]
      [] block_type \in {set_block_arrgap_egamma,
                         set_block_arrgap_egamma_inv} ->
            With(bit_in_gamma(sw, b, pos, 0), LAMBDA len :
                arr_at(gamma_sums(sw, b, pos, len.p, len.val % 65536, 65535),
                       pos))
      [] OTHER ->
            With(get_16(sw, b, pos), LAMBDA min_v :
            With(get_16(sw, b, pos + 2), LAMBDA max_v :
            With(bit_in_gamma(sw, b, pos + 4, 0), LAMBDA g :
            With(bic_decode_u16_cm(sw, b, pos + 4, g.p,
                                   ((g.val + 4) % 65536) - 2, min_v, max_v),
                 LAMBDA r :
                [arr |-> << min_v >> \o r.arr \o << max_v >>,
                 pos |-> bit_in_end(pos + 4, r.p)]))))

\* the values get_16() returns when called len times from pos on
get_16_each(sw, b, pos, len) ==
    { get_16(sw, b, pos + 2 * k) : k \in 0 .. (len - 1) }

\* the GAP block with the head ghead and the run ends r.arr but the last,
\* read by a bit reader created at base: [S, pos, err]
gap_at(ghead, first, r, base) ==
    With(r, LAMBDA x :
        [S   |-> gap_bits(ghead % 2,
                          first \o x.arr \o << gap_max_bits - 1 >>),
         pos |-> bit_in_end(base, x.p), err |-> FALSE])

\* the bits S of an array block, inverted for the inverted block types
arr_bits(S, block_type) ==
    IF block_type \in {set_block_arrgap_egamma_inv, set_block_arrgap_inv,
                       set_block_arrgap_bienc_inv}
    THEN AllBits \ S ELSE S \cap AllBits

\* deseriaizer_base::read_gap_block: [S, pos, err], S the bits of the GAP
\* block read
read_gap_block(sw, b, pos, block_type, ghead) ==
    CASE block_type = set_block_gap ->
            [S   |-> gap_bits(ghead % 2,
                        get_16_arr(sw, b, pos, gap_length(ghead) - 2)
                        \o << gap_max_bits - 1 >>),
             pos |-> pos + 2 * (gap_length(ghead) - 2), err |-> FALSE]
      [] block_type = set_block_bit_1bit ->
            [S |-> {get_16(sw, b, pos)} \cap AllBits, pos |-> pos + 2,
             err |-> FALSE]
      [] block_type \in {set_block_arrgap, set_block_arrgap_inv} ->
            With(get_16(sw, b, pos), LAMBDA len :
                [S   |-> arr_bits(get_16_each(sw, b, pos + 2, len),
                                  block_type),
                 pos |-> pos + 2 + 2 * len, err |-> FALSE])
      [] block_type \in {set_block_arrgap_egamma,
             set_block_arrgap_egamma_inv, set_block_arrgap_bienc,
             set_block_arrgap_bienc_inv} ->
            With(read_id_list(sw, b, pos, block_type), LAMBDA r :
                [S |-> arr_bits(SeqToSet(r.arr), block_type), pos |-> r.pos,
                 err |-> FALSE])
      [] block_type = set_block_gap_egamma ->
            gap_at(ghead, << >>,
                   gamma_sums(sw, b, pos, 0, (ghead \div 8) - 1, 65535), pos)
      [] block_type = set_block_gap_bienc ->
            With(get_16(sw, b, pos), LAMBDA min_v :
                gap_at(ghead, << min_v >>,
                       bic_decode_u16_cm(sw, b, pos + 2, 0, (ghead \div 8) - 2,
                                         min_v, gap_max_bits - 1), pos + 2))
      [] OTHER -> [S |-> {}, pos |-> pos, err |-> TRUE]

\* deseriaizer_base::read_bic_arr: [S, pos], the bits set in the block
read_bic_arr(sw, b, pos) ==
    With(get_16(sw, b, pos), LAMBDA min_v :
    With(get_16(sw, b, pos + 2), LAMBDA max_v :
    With(bic_decode_u16_cm(sw, b, pos + 6, 0, get_16(sw, b, pos + 4) - 2,
                           min_v, max_v), LAMBDA r :
        [S   |-> ({min_v, max_v} \cup SeqToSet(r.arr)) \cap AllBits,
         pos |-> bit_in_end(pos + 6, r.p)])))

\* deseriaizer_base::read_bic_gap: [S, pos], the bits added to the block
read_bic_gap(sw, b, pos) ==
    With(get_16(sw, b, pos + 3), LAMBDA min_v :
    With(bic_decode_u16_cm(sw, b, pos + 5, 0, get_16(sw, b, pos + 1) - 2,
                           min_v, gap_max_bits - 1), LAMBDA r :
        [S   |-> gap_bits(get_8(b, pos) % 2,
                          << min_v >> \o r.arr \o << gap_max_bits - 1 >>),
         pos |-> bit_in_end(pos + 5, r.p)]))

\* the words of the waves of digest d0 from wave w on, read at pos: [S, pos]
read_digest_waves(sw, b, pos, d0, w) ==
    [S   |-> UNION { { k + u * set_block_digest_wave_size * word_bits :
                         k \in get_words(sw, b,
                                  pos + 4 * set_block_digest_wave_size
                                        * Cardinality({ x \in d0 :
                                                          w <= x /\ x < u }),
                                  set_block_digest_wave_size) } :
                     u \in { x \in d0 : w <= x } },
     pos |-> pos + 4 * set_block_digest_wave_size
                     * Cardinality({ x \in d0 : w <= x })]

\* deseriaizer_base::read_digest0_block: [S, pos], the bits OR-ed in
read_digest0_block(sw, b, pos) ==
    read_digest_waves(sw, b, pos + 8, get_64(sw, b, pos), 0)

\* read_0runs that stores the words of every run from word 0 on
RECURSIVE read_0runs_unplaced(_, _, _, _, _)
read_0runs_unplaced(sw, b, pos, j, run_type) ==
    IF j >= set_block_size THEN [S |-> {}, pos |-> pos]
    ELSE With(get_16(sw, b, pos), LAMBDA run_length :
            IF run_type
            THEN With(read_0runs_unplaced(sw, b, pos + 2 + 4 * run_length,
                                          j + run_length, FALSE),
                      LAMBDA rest :
                    [S |-> get_words(sw, b, pos + 2, run_length) \cup rest.S,
                     pos |-> rest.pos])
            ELSE read_0runs_unplaced(sw, b, pos + 2, j + run_length, TRUE))

\* the runs of deseriaizer_base::read_0runs_block from word j on: [S, pos]
RECURSIVE read_0runs(_, _, _, _, _)
read_0runs(sw, b, pos, j, run_type) ==
    IF j >= set_block_size THEN [S |-> {}, pos |-> pos]
    ELSE With(get_16(sw, b, pos), LAMBDA run_length :
            IF run_type
            THEN With(read_0runs(sw, b, pos + 2 + 4 * run_length,
                                 j + run_length, FALSE), LAMBDA rest :
                    [S |-> { k + j * word_bits :
                               k \in get_words(sw, b, pos + 2, run_length) }
                           \cup rest.S,
                     pos |-> rest.pos])
            ELSE read_0runs(sw, b, pos + 2, j + run_length, TRUE))

\* deseriaizer_base::read_0runs_block: [S, pos]
read_0runs_block(sw, b, pos) ==
    read_0runs(sw, b, pos + 1, 0, get_8(b, pos) # 0)

(* ------------------------------ deserializer --------------------------- *)

\* bvector::combine_operation_with_block(nb, arg, arg_gap, BM_OR) and the
\* direct stores of a decoded block: the bits S OR-ed into blk.  The result
\* is a GAP block when the argument is in GAP form, the target is absent or
\* GAP, and the sum fits the longest GAP level
merge_block(blk, S, gapform) ==
    IF blk.t = "full" THEN blk
    ELSE [t |-> IF gapform /\ blk.t \in {"null", "gap"}
                   /\ gap_calc_level(Len(RunEnds(blk.bits \cup S)) + 1) >= 0
                THEN "gap" ELSE "bit",
          bits |-> blk.bits \cup S]

\* blocks_manager::deoptimize_block: a GAP or FULL block as a bit block
deoptimize_block(blk) ==
    IF blk.t \in {"gap", "full"} THEN [t |-> "bit", bits |-> blk.bits] ELSE blk

\* the block blk with the payload r = [S, pos] of a token OR-ed in:
\* [blk, pos, err]
merged(blk, r, gapform) ==
    With(r, LAMBDA x :
        [blk |-> merge_block(blk, x.S \cap AllBits, gapform), pos |-> x.pos,
         err |-> FALSE])

\* deserializer::deserialize_gap: [blk, pos, err], the block after the
\* token of type btype whose payload starts at pos was OR-ed into blk
deserialize_gap(sw, b, pos, btype, blk) ==
    CASE btype \in {set_block_gap, set_block_gapbit} ->
            merged(blk, read_gap_block(sw, b, pos + 2, set_block_gap,
                                       get_16(sw, b, pos)), TRUE)
      [] btype \in {set_block_arrgap, set_block_arrgap_egamma,
                    set_block_arrgap_bienc} ->
            With(read_id_list(sw, b, pos, btype), LAMBDA r :
                merged(blk, [S |-> SeqToSet(r.arr), pos |-> r.pos], TRUE))
      [] btype \in {set_block_gap_egamma, set_block_gap_bienc} ->
            merged(blk, read_gap_block(sw, b, pos + 2, btype,
                                       get_16(sw, b, pos)), TRUE)
      [] btype \in {set_block_arrgap_egamma_inv, set_block_arrgap_inv,
                    set_block_arrgap_bienc_inv} ->
            merged(blk, read_gap_block(sw, b, pos, btype, 0), TRUE)
      [] OTHER -> [blk |-> blk, pos |-> pos, err |-> TRUE]

\* the payload r = [S, pos] with S inverted
inverted_payload(r) == [S |-> AllBits \ r.S, pos |-> r.pos]

\* a block allocated anew in the place of an absent or a GAP block
bit_target_fresh(blk) ==
    IF blk.t \in {"null", "gap"} THEN [t |-> "bit", bits |-> {}] ELSE blk

\* the block decode_bit_block works on: allocated when absent, a GAP block
\* deoptimized
bit_target(blk) ==
    IF blk.t = "null" THEN [t |-> "bit", bits |-> {}]
    ELSE IF blk.t = "gap" THEN deoptimize_block(blk) ELSE blk

\* deserializer::decode_bit_block: [blk, pos, err]
decode_bit_block(sw, b, pos, btype, blk) ==
    CASE btype = set_block_arrbit_inv ->
            With(get_16(sw, b, pos), LAMBDA len :
                merged(deoptimize_block(bit_target(blk)),
                       [S   |-> AllBits \ get_16_each(sw, b, pos + 2, len),
                        pos |-> pos + 2 + 2 * len], FALSE))
      [] btype = set_block_arr_bienc ->
            merged(bit_target(blk), read_bic_arr(sw, b, pos), FALSE)
      [] btype = set_block_arr_bienc_inv ->
            merged(deoptimize_block(bit_target(blk)),
                   inverted_payload(read_bic_arr(sw, b, pos)), FALSE)
      [] btype = set_block_bitgap_bienc ->
            merged(bit_target(blk), read_bic_gap(sw, b, pos), FALSE)
      [] btype = set_block_bit_digest0 ->
            merged(bit_target(blk), read_digest0_block(sw, b, pos), FALSE)
      [] OTHER -> [blk |-> bit_target(blk), pos |-> pos, err |-> TRUE]

\* blocks_manager::set_all_set / BM_SET_ONE_BLOCKS: blocks from .. to of v
\* made FULL
set_all_set(v, from, to) ==
    [k \in DOMAIN v \cup (from .. Min(to, set_total_blocks - 1)) |->
        IF from <= k /\ k <= to THEN full_block ELSE v[k]]

\* the bits of the words head_idx .. tail_idx read at pos
\* (set_block_bit_interval): [S, pos]
read_interval(sw, b, pos, head_idx, tail_idx) ==
    [S   |-> { k + head_idx * word_bits :
                 k \in get_words(sw, b, pos, tail_idx - head_idx + 1) },
     pos |-> pos + 4 * (tail_idx - head_idx + 1)]

\* the token of type btype, its payload at p, decoded into the block blk:
\* [blk, pos, err]
decode_block(sw, b, p, btype, blk) ==
    CASE btype = set_block_bit ->
            merged(blk, [S   |-> get_words(sw, b, p, set_block_size),
                         pos |-> p + bit_block_bytes], FALSE)
      [] btype = set_block_bit_1bit ->
            merged(blk, [S |-> {get_16(sw, b, p)}, pos |-> p + 2], TRUE)
      [] btype = set_block_bit_0runs ->
            merged(blk, read_0runs_block(sw, b, p), FALSE)
      [] btype = set_block_bit_interval ->
            merged(blk, read_interval(sw, b, p + 4, get_16(sw, b, p),
                                      get_16(sw, b, p + 2)), FALSE)
      [] btype \in {set_block_gap, set_block_gapbit, set_block_arrgap,
             set_block_gap_egamma, set_block_arrgap_egamma,
             set_block_arrgap_egamma_inv, set_block_arrgap_inv,
             set_block_gap_bienc, set_block_arrgap_bienc,
             set_block_arrgap_bienc_inv} ->
            deserialize_gap(sw, b, p, btype, blk)
      [] btype = set_block_arrbit ->
            With(get_16(sw, b, p), LAMBDA len :
                merged(IF blk.t = "full" THEN blk
                       ELSE [t |-> "bit", bits |-> blk.bits],
                       [S   |-> get_16_each(sw, b, p + 2, len),
                        pos |-> p + 2 + 2 * len], FALSE))
      [] btype \in {set_block_arr_bienc, set_block_arrbit_inv,
             set_block_arr_bienc_inv, set_block_bitgap_bienc,
             set_block_bit_digest0} ->
            decode_bit_block(sw, b, p, btype, blk)
      [] OTHER -> [blk |-> blk, pos |-> p, err |-> TRUE]

\* run_count that keeps the high bit of the one-byte token in the count
run_count_unmasked(sw, b, pos, btype) ==
    CASE btype \in {set_block_1zero, set_block_1one} ->
            [x |-> 1, pos |-> pos + 1]
      [] btype \in {set_block_8zero, set_block_8one} ->
            [x |-> get_8(b, pos + 1), pos |-> pos + 2]
      [] btype \in {set_block_16zero, set_block_16one} ->
            [x |-> get_16(sw, b, pos + 1), pos |-> pos + 3]
      [] btype \in {set_block_32zero, set_block_32one} ->
            [x |-> get_32(sw, b, pos + 1), pos |-> pos + 5]
      [] OTHER -> [x |-> btype, pos |-> pos + 1]

\* the count x of a run token that starts at pos and the position after it
run_count(sw, b, pos, btype) ==
    CASE btype \in {set_block_1zero, set_block_1one} ->
            [x |-> 1, pos |-> pos + 1]
      [] btype \in {set_block_8zero, set_block_8one} ->
            [x |-> get_8(b, pos + 1), pos |-> pos + 2]
      [] btype \in {set_block_16zero, set_block_16one} ->
            [x |-> get_16(sw, b, pos + 1), pos |-> pos + 3]
      [] btype \in {set_block_32zero, set_block_32one} ->
            [x |-> get_32(sw, b, pos + 1), pos |-> pos + 5]
      [] OTHER -> [x |-> btype - 128, pos |-> pos + 1]

\* the state d of the block loop of deserializer::deserialize is
\* [tv, pos, i, err, done]: the target, the decoder position, the block
\* index, whether the SerialFormat error was thrown, whether the loop is left
deserialize_at(tv, pos, i) ==
    [tv |-> tv, pos |-> pos, i |-> i, err |-> FALSE, done |-> FALSE]

deserialize_left(tv, pos, i, err) ==
    [tv |-> tv, pos |-> pos, i |-> i, err |-> err, done |-> TRUE]

\* one pass of the block loop of deserializer::deserialize
deserialize_pass(sw, b, d) ==
    IF d.i >= set_total_blocks THEN deserialize_left(d.tv, d.pos, d.i, FALSE)
    ELSE
    With(get_8(b, d.pos), LAMBDA btype :
    CASE btype >= 128 \/ btype \in {set_block_1zero, set_block_8zero,
                                    set_block_16zero, set_block_32zero} ->
            With(run_count(sw, b, d.pos, btype), LAMBDA r :
                deserialize_at(d.tv, r.pos, d.i + r.x))
      [] btype \in {set_block_1one, set_block_8one, set_block_16one,
                    set_block_32one} ->
            With(run_count(sw, b, d.pos, btype), LAMBDA r :
                deserialize_at(set_all_set(d.tv, d.i, d.i + r.x - 1), r.pos,
                               d.i + r.x))
      [] btype \in {set_block_azero, set_block_end} ->
            deserialize_left(d.tv, d.pos + 1, d.i, FALSE)
      [] btype = set_block_aone ->
            deserialize_left(set_all_set(d.tv, d.i, set_total_blocks - 1),
                             d.pos + 1, d.i, FALSE)
      [] btype \in {set_block_64zero, set_block_64one} ->
            deserialize_left(d.tv, d.pos + 1, d.i, TRUE)
      [] OTHER ->
            With(decode_block(sw, b, d.pos + 1, btype, get_block(d.tv, d.i)),
                 LAMBDA r :
                IF r.err
                THEN deserialize_left(set_block(d.tv, d.i, r.blk), r.pos,
                                      d.i, TRUE)
                ELSE deserialize_at(set_block(d.tv, d.i, r.blk), r.pos,
                                    d.i + 1)))

\* the block loop of deserializer::deserialize from the state d on
RECURSIVE deserialize_loop(_, _, _)
deserialize_loop(sw, b, d) ==
    IF d.done THEN d ELSE deserialize_loop(sw, b, deserialize_pass(sw, b, d))

\* the block loop of deserializer::deserialize from block i on, the decoder
\* at pos: [tv, pos, err], err when the SerialFormat error was thrown
deserialize_blocks(sw, b, pos, i, tv) ==
    deserialize_loop(sw, b, deserialize_at(tv, pos, i))

\* bvector::set(idx) for the cnt ids listed from pos on (BM_HM_ID_LIST)
RECURSIVE read_ids(_, _, _, _, _)
read_ids(sw, b, pos, cnt, tv) ==
    IF cnt = 0 THEN [tv |-> tv, pos |-> pos, err |-> FALSE]
    ELSE With(get_32(sw, b, pos), LAMBDA idx :
            read_ids(sw, b, pos + 4, cnt - 1,
                     set_block(tv, idx \div gap_max_bits,
                               merge_block(get_block(tv, idx \div gap_max_bits),
                                           {idx % gap_max_bits}, TRUE))))

\* the header flag f is set in header_flag
flag_set(header_flag, f) == (header_flag \div f) % 2 = 1

\* position of the first block token of a stream with the header header_flag
blocks_pos(header_flag) ==
    1 + (IF flag_set(header_flag, BM_HM_NO_BO) THEN 0 ELSE 1)
      + (IF flag_set(header_flag, BM_HM_NO_GAPL) THEN 0
         ELSE 2 * Len(glevel_len))
      + (IF flag_set(header_flag, BM_HM_RESIZE) THEN 4 ELSE 0)

\* position of the id count of an id list stream with the header header_flag
ids_pos(header_flag) ==
    1 + (IF flag_set(header_flag, BM_HM_NO_BO) THEN 0 ELSE 1)
      + (IF flag_set(header_flag, BM_HM_RESIZE) THEN 4 ELSE 0)

\* the result of deserializer::deserialize from the result r of its loop;
\* the strategy is put back only at the end of the block loop
deserialize_result(r, ret, strat) ==
    [tv |-> r.tv, ret |-> IF r.err THEN 0 ELSE ret, err |-> r.err,
     strat |-> strat]

\* deserializer<BV, DEC>::deserialize: [tv, ret, err, strat].  ret is the
\* returned byte count, err tells that the SerialFormat error was thrown,
\* strat is the new-blocks strategy the target is left with
deserializer_deserialize(sw, b, tv, strat) ==
    With(get_8(b, 0), LAMBDA header_flag :
        IF flag_set(header_flag, BM_HM_64_BIT)
        THEN [tv |-> tv, ret |-> 0, err |-> TRUE, strat |-> "BM_GAP"]
        ELSE IF flag_set(header_flag, BM_HM_ID_LIST)
        THEN With(read_ids(sw, b, ids_pos(header_flag) + 4,
                           get_32(sw, b, ids_pos(header_flag)), tv),
                  LAMBDA r : deserialize_result(r, r.pos - 1, "BM_GAP"))
        ELSE With(deserialize_blocks(sw, b, blocks_pos(header_flag), 0, tv),
                  LAMBDA r :
                    deserialize_result(r, r.pos,
                                       IF r.err THEN "BM_GAP" ELSE strat)))

\* bm::deserialize(bv, buf): the decoder is chosen from the byte-order byte
deserialize(b, tv, strat) ==
    deserializer_deserialize(
        ~flag_set(get_8(b, 0), BM_HM_NO_BO) /\ get_8(b, 1) # byte_order,
        b, tv, strat)

(* ------------------------------ serial_stream_iterator ----------------- *)

\* the iterator before its constructor has read the header
sit_start ==
    [pos |-> 0, state |-> "e_unknown", end_of_stream |-> FALSE, err |-> FALSE,
     block_type |-> 0, block_idx |-> 0, mono_block_cnt |-> 0, gap_head |-> 0,
     id_cnt |-> 0, last_id |-> 0]

\* the iterator s at the end of the stream
sit_eof(s, pos) ==
    [s EXCEPT !.pos = pos, !.end_of_stream = TRUE, !.state = "e_unknown"]

\* the switch (block_type_) of serial_stream_iterator::next, the token bt
\* read at s.pos
sit_token(sw, b, s, bt) ==
    CASE bt >= 128 \/ bt \in {set_block_1zero, set_block_8zero,
                              set_block_16zero, set_block_32zero} ->
            With(run_count(sw, b, s.pos, bt), LAMBDA r :
                [s EXCEPT !.block_type = bt, !.pos = r.pos,
                          !.state = "e_zero_blocks",
                          !.mono_block_cnt = r.x - 1])
      [] bt \in {set_block_1one, set_block_8one, set_block_16one,
                 set_block_32one} ->
            With(run_count(sw, b, s.pos, bt), LAMBDA r :
                [s EXCEPT !.block_type = bt, !.pos = r.pos,
                          !.state = "e_one_blocks",
                          !.mono_block_cnt = r.x - 1])
      [] bt \in {set_block_azero, set_block_end} ->
            sit_eof([s EXCEPT !.block_type = bt], s.pos + 1)
      [] bt = set_block_aone ->
            [s EXCEPT !.block_type = bt, !.pos = @ + 1,
                      !.state = "e_one_blocks",
                      !.mono_block_cnt = set_total_blocks - s.block_idx]
      [] bt \in {set_block_bit, set_block_bit_interval, set_block_bit_0runs,
                 set_block_arrbit, set_block_arrbit_inv, set_block_arr_bienc,
                 set_block_arr_bienc_inv, set_block_bitgap_bienc,
                 set_block_bit_digest0} ->
            [s EXCEPT !.block_type = bt, !.pos = @ + 1,
                      !.state = "e_bit_block"]
      [] bt \in {set_block_gap, set_block_gap_egamma, set_block_gap_bienc} ->
            [s EXCEPT !.block_type = bt, !.pos = @ + 3,
                      !.gap_head = get_16(sw, b, s.pos + 1),
                      !.state = "e_gap_block"]
      [] bt \in {set_block_arrgap, set_block_arrgap_egamma,
                 set_block_arrgap_egamma_inv, set_block_arrgap_inv,
                 set_block_bit_1bit, set_block_arrgap_bienc,
                 set_block_arrgap_bienc_inv, set_block_gapbit} ->
            [s EXCEPT !.block_type = bt, !.pos = @ + 1,
                      !.state = "e_gap_block"]
      [] OTHER -> [s EXCEPT !.block_type = bt, !.pos = @ + 1, !.err = TRUE]

\* serial_stream_iterator::next
sit_next(sw, b, s) ==
    IF s.end_of_stream THEN [s EXCEPT !.block_idx = @ + 1]
    ELSE CASE s.state = "e_list_ids" ->
                IF s.id_cnt = 0 THEN sit_eof(s, s.pos)
                ELSE [s EXCEPT !.last_id = get_32(sw, b, s.pos),
                               !.pos = @ + 4, !.id_cnt = @ - 1]
           [] s.state = "e_blocks" ->
                IF s.block_idx = set_total_blocks THEN sit_eof(s, s.pos)
                ELSE sit_token(sw, b, s, get_8(b, s.pos))
           [] s.state \in {"e_zero_blocks", "e_one_blocks"} ->
                IF s.mono_block_cnt = 0
                THEN [s EXCEPT !.block_idx = @ + 1, !.state = "e_blocks"]
                ELSE [s EXCEPT !.block_idx = @ + 1, !.mono_block_cnt = @ - 1]
           [] OTHER -> [s EXCEPT !.err = TRUE]

\* bytes of the vector size in the header read by the iterator
sit_size_bytes(header_flag) ==
    IF flag_set(header_flag, BM_HM_RESIZE) /\ flag_set(header_flag, BM_HM_64_BIT)
    THEN 4 ELSE 0

\* serial_stream_iterator::serial_stream_iterator(buf)
serial_stream_iterator(sw, b) ==
    With(get_8(b, 0), LAMBDA header_flag :
        IF flag_set(header_flag, BM_HM_ID_LIST)
        THEN With(ids_pos(header_flag) + sit_size_bytes(header_flag),
                  LAMBDA p :
                sit_next(sw, b, [sit_start EXCEPT !.state = "e_list_ids",
                                     !.id_cnt = get_32(sw, b, p),
                                     !.pos = p + 4]))
        ELSE [sit_start EXCEPT !.state = "e_blocks",
                  !.pos = blocks_pos(header_flag)
                          + sit_size_bytes(header_flag)])

skip_mono_blocks_short(s) ==
    [s EXCEPT !.block_idx = @ + s.mono_block_cnt, !.mono_block_cnt = 0,
              !.state = "e_blocks"]

\* serial_stream_iterator::skip_mono_blocks
skip_mono_blocks(s) ==
    [s EXCEPT !.block_idx = @ + s.mono_block_cnt + 1, !.mono_block_cnt = 0,
              !.state = "e_blocks"]

\* the result r = [S, pos] of a payload reader as [S, pos, err]
payload(r) == [S |-> r.S \cap AllBits, pos |-> r.pos, err |-> FALSE]

\* the bits that the switch (block_type_) of the get_bit_block_ functions
\* reads from the stream at pos: [S, pos, err]
bit_block_payload(sw, b, pos, block_type) ==
    CASE block_type = set_block_bit ->
            payload([S   |-> get_words(sw, b, pos, set_block_size),
                     pos |-> pos + bit_block_bytes])
      [] block_type = set_block_bit_0runs ->
            payload(read_0runs_block(sw, b, pos))
      [] block_type = set_block_bit_interval ->
            payload(read_interval(sw, b, pos + 4, get_16(sw, b, pos),
                                  get_16(sw, b, pos + 2)))
      [] block_type = set_block_arrbit ->
            With(get_16(sw, b, pos), LAMBDA len :
                payload([S   |-> get_16_each(sw, b, pos + 2, len),
                         pos |-> pos + 2 + 2 * len]))
      [] block_type = set_block_bit_1bit ->
            payload([S |-> {get_16(sw, b, pos)}, pos |-> pos + 2])
      [] block_type = set_block_arrbit_inv ->
            With(get_16(sw, b, pos), LAMBDA len :
                payload([S   |-> AllBits \ get_16_each(sw, b, pos + 2, len),
                         pos |-> pos + 2 + 2 * len]))
      [] block_type = set_block_arr_bienc ->
            payload(read_bic_arr(sw, b, pos))
      [] block_type = set_block_arr_bienc_inv ->
            payload(inverted_payload(read_bic_arr(sw, b, pos)))
      [] block_type = set_block_bitgap_bienc ->
            payload(read_bic_gap(sw, b, pos))
      [] block_type = set_block_bit_digest0 ->
            payload(read_digest0_block(sw, b, pos))
      [] OTHER -> [S |-> {}, pos |-> pos, err |-> TRUE]

\* the bits of the target block A after get_bit_block_<op> combined it with
\* the bits S of the stream; the counting functions leave it alone
bit_block_op(op, A, S) ==
    CASE op = "set_ASSIGN" -> S
      [] op = "set_OR"  -> A \cup S
      [] op = "set_AND" -> A \cap S
      [] op = "set_XOR" -> (A \ S) \cup (S \ A)
      [] op = "set_SUB" -> A \ S
      [] OTHER -> A

\* the count get_bit_block_<op> returns for the target bits A and the
\* stream bits S; COUNT_B is bound to get_bit_block_COUNT
bit_block_count(op, A, S) ==
    CASE op \in {"set_COUNT", "set_COUNT_B"} -> Cardinality(S)
      [] op = "set_COUNT_A"      -> Cardinality(A)
      [] op = "set_COUNT_AND"    -> Cardinality(A \cap S)
      [] op = "set_COUNT_OR"     -> Cardinality(A \cup S)
      [] op = "set_COUNT_XOR"    -> Cardinality((A \ S) \cup (S \ A))
      [] op = "set_COUNT_SUB_AB" -> Cardinality(A \ S)
      [] op = "set_COUNT_SUB_BA" -> Cardinality(S \ A)
      [] OTHER -> 0

\* the payload consumed with block_idx_ left as it was
sit_got_block_unmoved(s, pos) == [s EXCEPT !.pos = pos, !.state = "e_blocks"]

\* the tail of get_bit_block and get_gap_block: the payload consumed up to
\* pos, the iterator on the next block
sit_got_block(s, pos) ==
    [s EXCEPT !.pos = pos, !.state = "e_blocks", !.block_idx = @ + 1]

(* ------------------------------ iterator_deserializer ------------------ *)
(* The engine state e is [s, idx, count, tv, done, ret, err]: the stream    *)
(* iterator, the target block index bv_block_idx, the running count, the   *)
(* target, whether deserialize has returned or thrown, the value returned  *)
(* and whether the SerialFormat error was thrown.  The call c is [sw, b,   *)
(* op, exit_on_one, is_range_set, nb_range_to].                            *)

\* bm::is_const_set_operation
is_const_set_operation(op) ==
    op \in {"set_COUNT", "set_COUNT_AND", "set_COUNT_XOR", "set_COUNT_OR",
            "set_COUNT_SUB_AB", "set_COUNT_SUB_BA", "set_COUNT_A",
            "set_COUNT_B"}

\* blocks_manager::optimize_bit_block: an empty bit block freed, a bit
\* block of all ones made FULL, one that fits a GAP block made GAP
optimize_bit_block(blk) ==
    IF blk.t # "bit" THEN blk
    ELSE IF blk.bits = {} THEN null_block
    ELSE IF blk.bits = AllBits THEN full_block
    ELSE IF gap_calc_level(Len(RunEnds(blk.bits)) + 1) >= 0
         THEN [t |-> "gap", bits |-> blk.bits]
         ELSE blk

\* blocks_manager::set_all_zero(nb, nb_to): the blocks nb .. nb_to freed
set_all_zero(v, nb, nb_to) ==
    [k \in { n \in DOMAIN v : n < nb \/ n > nb_to } |-> v[k]]

\* blocks_manager::block_bitcount summed over the blocks of v from nb on
RECURSIVE block_bitcount_from(_, _)
block_bitcount_from(v, nb) ==
    IF \A k \in DOMAIN v : k < nb THEN 0
    ELSE Cardinality(block_bits(v, find_next_nz_block(v, nb)))
         + block_bitcount_from(v, find_next_nz_block(v, nb) + 1)

\* iterator_deserializer::finalize_target_vector: [tv, count]
finalize_target_vector(tv, op, bv_block_idx) ==
    CASE op \in {"set_ASSIGN", "set_AND"} ->
            [tv |-> set_all_zero(tv, bv_block_idx, set_total_blocks - 1),
             count |-> 0]
      [] op \in {"set_COUNT_A", "set_COUNT_OR", "set_COUNT_XOR",
                 "set_COUNT_SUB_AB"} ->
            [tv |-> tv, count |-> block_bitcount_from(tv, bv_block_idx)]
      [] OTHER -> [tv |-> tv, count |-> 0]

\* deserialize returns ret
it_return(e, ret) == [e EXCEPT !.done = TRUE, !.ret = ret]

\* the SerialFormat error thrown out of the engine
it_throw(e) == [e EXCEPT !.done = TRUE, !.err = TRUE]

\* the block e_bit_block works on and hands to get_bit_block: NULL for a
\* dry read, allocated for OR and XOR, a FULL block kept for the counting
\* operations, deoptimized otherwise
bit_block_dst(blk, op) ==
    IF blk.t = "null"
    THEN IF op \in {"set_OR", "set_XOR", "set_ASSIGN"}
         THEN [t |-> "bit", bits |-> {}] ELSE null_block
    ELSE IF blk.t = "full" /\ is_const_set_operation(op) THEN blk
    ELSE deoptimize_block(blk)

\* the operation sop e_bit_block passes to get_bit_block
bit_block_sop(blk, op) ==
    IF blk.t # "null" \/ op \in {"set_OR", "set_XOR", "set_ASSIGN"} THEN op
    ELSE IF op \in {"set_AND", "set_SUB", "set_COUNT_AND",
                    "set_COUNT_SUB_AB", "set_COUNT_A"}
         THEN "set_ASSIGN" ELSE "set_COUNT"

\* serial_stream_iterator::get_bit_block(dst, tmp, sop) for the stream
\* bits S: [blk, cnt], the block dst afterwards and the count returned
get_bit_block(dst, S, sop) ==
    [blk |-> IF dst.t = "null" THEN dst
             ELSE IF bit_block_op(sop, dst.bits, S) = dst.bits THEN dst
             ELSE [t |-> "bit", bits |-> bit_block_op(sop, dst.bits, S)],
     cnt |-> bit_block_count(sop, dst.bits, S)]

\* the block of case e_one_blocks after the operation op with a block of
\* all ones
one_block_op(blk, op) ==
    CASE op \in {"set_OR", "set_ASSIGN"} -> full_block
      [] op = "set_SUB" -> null_block
      [] op = "set_XOR" ->
            IF blk.t = "null" THEN full_block
            ELSE [t |-> "bit", bits |-> AllBits \ blk.bits]
      [] OTHER -> blk

\* what case e_one_blocks adds to the count
one_block_count(blk, op) ==
    CASE op \in {"set_COUNT_OR", "set_COUNT_B", "set_COUNT"} -> gap_max_bits
      [] op \in {"set_COUNT_AND", "set_COUNT_A"} -> Cardinality(blk.bits)
      [] op \in {"set_COUNT_XOR", "set_COUNT_SUB_BA"} ->
            gap_max_bits - Cardinality(blk.bits)
      [] OTHER -> 0

\* the target block of case e_gap_block after the set operation op with
\* the GAP block of bits S: blocks_manager::set_gap_block for an absent
\* target under OR and XOR, bvector::combine_operation_with_block for an
\* existing one
gap_block_op(blk, S, op) ==
    IF blk.t = "null"
    THEN IF op \in {"set_OR", "set_XOR"}
         THEN [t |-> IF gap_calc_level(Len(RunEnds(S)) + 1) >= 0
                     THEN "gap" ELSE "bit", bits |-> S]
         ELSE blk
    ELSE optimize_bit_block([t |-> "bit",
                             bits |-> bit_block_op(op, blk.bits, S)])

\* the loop left one block before the last block of the range
it_break_early(c, e) ==
    IF c.is_range_set /\ e.idx + 1 >= c.nb_range_to
    THEN [e EXCEPT !.idx = @ + 1, !.done = TRUE, !.ret = e.count]
    ELSE [e EXCEPT !.idx = @ + 1]

\* the end of a pass of the loop: ++bv_block_idx, then the range check
it_break(c, e) ==
    IF c.is_range_set /\ e.idx + 1 > c.nb_range_to
    THEN it_return([e EXCEPT !.idx = @ + 1], e.count)
    ELSE [e EXCEPT !.idx = @ + 1]

\* if (exit_on_one && count) return count; e2 is the state the loop goes
\* on with
it_early(c, e, e2) ==
    IF c.exit_on_one /\ e.count # 0 THEN it_return(e, e.count)
    ELSE it_break(c, e2)

\* case e_bit_block
it_bit_block(c, e) ==
    With(get_block(e.tv, e.idx), LAMBDA blk :
    With(bit_block_payload(c.sw, c.b, e.s.pos, e.s.block_type), LAMBDA p :
    IF p.err THEN it_throw(e)
    ELSE
    With(get_bit_block(bit_block_dst(blk, c.op), p.S,
                       bit_block_sop(blk, c.op)), LAMBDA r :
        it_early(c,
            [e EXCEPT !.s = sit_got_block(e.s, p.pos), !.count = @ + r.cnt,
                      !.tv = set_block(@, e.idx, r.blk)],
            [e EXCEPT !.s = sit_got_block(e.s, p.pos), !.count = @ + r.cnt,
                      !.tv = set_block(@, e.idx,
                                 IF is_const_set_operation(c.op) THEN r.blk
                                 ELSE optimize_bit_block(r.blk))]))))

\* blocks_manager::block_bitcount summed over the blocks nb .. nb_to of v
RECURSIVE block_bitcount_range(_, _, _)
block_bitcount_range(v, nb, nb_to) ==
    IF find_next_nz_block(v, nb) > nb_to THEN 0
    ELSE Cardinality(block_bits(v, find_next_nz_block(v, nb)))
         + block_bitcount_range(v, find_next_nz_block(v, nb) + 1, nb_to)

\* the iterator s in a run after j calls of next
sit_steps(s, j) ==
    IF j > s.mono_block_cnt THEN skip_mono_blocks(s)
    ELSE [s EXCEPT !.block_idx = @ + j, !.mono_block_cnt = @ - j]

\* the count after the passes of case e_zero_blocks over the blocks
\* e.idx .. e.idx + k under a counting operation
zero_run_count(e, k) ==
    e.count + block_bitcount_range(e.tv, e.idx, e.idx + k)

\* the passes k of case e_zero_blocks over the run at which the loop is
\* left: by if (exit_on_one && count) after a block of the target was
\* counted, or by the range check after ++bv_block_idx
zero_run_stops(c, e) ==
    { k \in 0 .. e.s.mono_block_cnt :
        \/ c.exit_on_one /\ e.idx + k \in DOMAIN e.tv
              /\ zero_run_count(e, k) # 0
        \/ c.is_range_set /\ e.idx + k + 1 > c.nb_range_to }

\* the loop left in pass k of a run of zero blocks
zero_run_left(c, e, k) ==
    IF c.exit_on_one /\ e.idx + k \in DOMAIN e.tv /\ zero_run_count(e, k) # 0
    THEN it_return([e EXCEPT !.s = sit_steps(e.s, k + 1), !.idx = @ + k,
                             !.count = zero_run_count(e, k)],
                   zero_run_count(e, k))
    ELSE it_return([e EXCEPT !.s = sit_steps(e.s, k + 1), !.idx = @ + k + 1,
                             !.count = zero_run_count(e, k)],
                   zero_run_count(e, k))

\* case e_zero_blocks: the run skipped at once by the operations that a
\* zero block leaves the target and the count unchanged for (AND frees the
\* target blocks first); one pass for each block of the run for the other
\* counting operations, each adding the bit count of the target block
it_zero_blocks(c, e) ==
    IF c.op \in {"set_ASSIGN", "set_SUB", "set_COUNT_AND", "set_OR",
                 "set_XOR", "set_COUNT_SUB_BA", "set_COUNT_B"}
    THEN [e EXCEPT !.s = skip_mono_blocks(e.s),
                   !.idx = skip_mono_blocks(e.s).block_idx]
    ELSE IF c.op = "set_AND"
    THEN [e EXCEPT !.s = skip_mono_blocks(e.s),
                   !.idx = skip_mono_blocks(e.s).block_idx,
                   !.tv = set_all_zero(@, e.idx,
                              skip_mono_blocks(e.s).block_idx - 1)]
    ELSE IF zero_run_stops(c, e) # {}
    THEN zero_run_left(c, e, CHOOSE k \in zero_run_stops(c, e) :
                                \A j \in zero_run_stops(c, e) : k <= j)
    ELSE [e EXCEPT !.s = skip_mono_blocks(e.s),
                   !.idx = @ + e.s.mono_block_cnt + 1,
                   !.count = zero_run_count(e, e.s.mono_block_cnt)]

\* case e_one_blocks
it_one_blocks(c, e) ==
    With([e EXCEPT !.s = sit_next(c.sw, c.b, e.s),
                   !.count = @ + one_block_count(get_block(e.tv, e.idx), c.op),
                   !.tv = set_block(@, e.idx,
                              one_block_op(get_block(e.tv, e.idx), c.op))],
         LAMBDA e2 : it_early(c, e2, e2))

\* case e_gap_block for the GAP block g = [S, pos, err] that get_gap_block
\* read
it_gap_block(c, e, g) ==
    IF g.err THEN it_throw(e)
    ELSE IF is_const_set_operation(c.op)
    THEN With([e EXCEPT !.s = sit_got_block(e.s, g.pos),
                        !.count = @ + bit_block_count(c.op,
                                          block_bits(e.tv, e.idx), g.S)],
              LAMBDA e2 : it_early(c, e2, e2))
    ELSE With([e EXCEPT !.s = sit_got_block(e.s, g.pos),
                        !.tv = set_block(@, e.idx,
                                   gap_block_op(get_block(e.tv, e.idx), g.S,
                                                c.op))],
              LAMBDA e2 :
                IF c.exit_on_one
                   /\ ~check_block_zero(get_block(e2.tv, e.idx), TRUE)
                THEN it_return(e2, 1)
                ELSE it_break(c, e2))

\* one pass of the loop of iterator_deserializer::deserialize
it_pass(c, e) ==
    IF e.s.err THEN it_throw(e)
    ELSE IF e.s.end_of_stream
    THEN With(finalize_target_vector(e.tv, c.op, e.idx), LAMBDA f :
            it_return([e EXCEPT !.tv = f.tv], e.count + f.count))
    ELSE CASE e.s.state = "e_blocks" ->
                [e EXCEPT !.s = sit_next(c.sw, c.b, e.s)]
           [] e.s.state = "e_bit_block" -> it_bit_block(c, e)
           [] e.s.state = "e_zero_blocks" -> it_zero_blocks(c, e)
           [] e.s.state = "e_one_blocks" -> it_one_blocks(c, e)
           [] e.s.state = "e_gap_block" ->
                it_gap_block(c, e, read_gap_block(c.sw, c.b, e.s.pos,
                                       e.s.block_type, e.s.gap_head))
           [] OTHER -> it_throw(e)

\* iterator_deserializer::deserialize: the loop over the blocks of the
\* stream, from the state e on
RECURSIVE it_deserialize(_, _)
it_deserialize(c, e) ==
    IF e.done THEN e ELSE it_deserialize(c, it_pass(c, e))

(* ------------------------------ process_id_list ----------------------- *)
(* The bit-vector operations used on the target are those of the container  *)
(* (bm.h, bmalgo.h): they are taken by their meaning on the sets of bits.   *)

\* the bits of the vector v as bit indexes
vec_ids(v) == { k * gap_max_bits + j : << k, j >> \in
                  UNION { {k1} \X v[k1].bits : k1 \in DOMAIN v } }

\* the vector v with the bits of block nb replaced by S
vec_block(v, nb, S) ==
    IF S = block_bits(v, nb) THEN v
    ELSE IF S = {} THEN set_block(v, nb, null_block)
    ELSE set_block(v, nb, [t |-> "bit", bits |-> S])

\* the vector v with the bits I set (combine_or), cleared (combine_sub),
\* toggled (bv[id] ^= true for each id of I), and with no other bits than
\* those of I (bv &= bv_tmp)
vec_apply(v, I, how) ==
    IF I = {} /\ how # "and" THEN v
    ELSE LET nbs == IF how = "and" THEN DOMAIN v
                    ELSE { id \div gap_max_bits : id \in I }
             bits(nb) == { id % gap_max_bits :
                             id \in { x \in I : x \div gap_max_bits = nb } }
             after(nb) ==
                CASE how = "or"  -> block_bits(v, nb) \cup bits(nb)
                  [] how = "sub" -> block_bits(v, nb) \ bits(nb)
                  [] how = "xor" -> (block_bits(v, nb) \ bits(nb))
                                       \cup (bits(nb) \ block_bits(v, nb))
                  [] how = "and" -> block_bits(v, nb) \cap bits(nb)
         IN [k \in { n \in DOMAIN v \cup nbs : after(n) # {} } |->
                IF after(k) = block_bits(v, k) THEN v[k]
                ELSE [t |-> "bit", bits |-> after(k)]]

\* n times get_id() and next() on the iterator s: [ids, s], the ids got
\* and the iterator afterwards
RECURSIVE sit_get_ids(_, _, _, _)
sit_get_ids(sw, b, s, n) ==
    IF n = 0 THEN [ids |-> << >>, s |-> s]
    ELSE With(sit_get_ids(sw, b, sit_next(sw, b, s), n - 1), LAMBDA r :
            [ids |-> << s.last_id >> \o r.ids, s |-> r.s])

\* iterator_deserializer::load_id_list(bv, sit, id_count, set_clear): the
\* loops run while i <= id_count
load_id_list(sw, b, s, id_count) == sit_get_ids(sw, b, s, id_count + 1)

Range(f) == { f[k] : k \in DOMAIN f }

\* iterator_deserializer::process_id_list; id_count is get_id_count() of
\* the iterator, whose constructor has read the first id.  set_clear is
\* true when load_id_list is reached for SUB
process_id_list(c, e) ==
    LET id_count == e.s.id_cnt
        all == load_id_list(c.sw, c.b, e.s, id_count)
        some == sit_get_ids(c.sw, c.b, e.s, id_count)
        A == vec_ids(e.tv)
        done(s, v, count) ==
            it_return([e EXCEPT !.s = s, !.tv = v, !.count = count], count)
    IN CASE c.op = "set_AND" ->
              done(all.s, vec_apply(e.tv, Range(all.ids), "and"), 0)
         [] c.op \in {"set_ASSIGN", "set_OR", "set_SUB"} ->
              done(all.s, vec_apply(e.tv, Range(all.ids), "or"), 0)
         [] c.op = "set_XOR" ->
              done(some.s, vec_apply(e.tv, Range(some.ids), "xor"), 0)
         [] c.op \in {"set_COUNT", "set_COUNT_B"} ->
              done(some.s, e.tv, id_count)
         [] c.op = "set_COUNT_A" -> done(e.s, e.tv, Cardinality(A))
         [] c.op = "set_COUNT_AND" ->
              done(some.s, e.tv,
                   Cardinality({ k \in 1 .. id_count : some.ids[k] \in A }))
         [] c.op = "set_COUNT_XOR" ->
              done(all.s, e.tv,
                   Cardinality((A \ Range(all.ids))
                               \cup (Range(all.ids) \ A)))
         [] c.op = "set_COUNT_OR" ->
              done(all.s, e.tv, Cardinality(A \cup Range(all.ids)))
         [] c.op = "set_COUNT_SUB_AB" ->
              done(all.s, e.tv, Cardinality(A \ Range(all.ids)))
         [] c.op = "set_COUNT_SUB_BA" ->
              done(all.s, e.tv, Cardinality(Range(all.ids) \ A))
         [] OTHER -> it_throw(e)

\* what operation_deserializer hands to iterator_deserializer::deserialize:
\* the decoder sw chosen from the byte-order byte, the operation (ASSIGN
\* turned into OR), exit_on_one and the range of set_range
engine_conf(b, op, exit_on_one, is_range_set, nb_range_to) ==
    [sw |-> ~flag_set(get_8(b, 0), BM_HM_NO_BO) /\ get_8(b, 1) # byte_order,
     b |-> b,
     op |-> IF op = "set_ASSIGN" THEN "set_OR" ELSE op,
     exit_on_one |-> exit_on_one,
     is_range_set |-> is_range_set,
     nb_range_to |-> nb_range_to]

\* the engine before the first pass of its loop: the iterator constructed,
\* bv_block_idx = 0, the target cleared for ASSIGN
engine_start(b, tv, op) ==
    [s |-> serial_stream_iterator(
               ~flag_set(get_8(b, 0), BM_HM_NO_BO) /\ get_8(b, 1) # byte_order,
               b),
     idx |-> 0, count |-> 0,
     tv |-> IF op = "set_ASSIGN" THEN << >> ELSE tv,
     done |-> FALSE, ret |-> 0, err |-> FALSE]

\* operation_deserializer::deserialize and deserialize_range: the decoder
\* chosen from the byte-order byte, ASSIGN turned into OR on a cleared
\* target, the iterator constructed, the engine run: process_id_list for
\* the stream of an id list, the loop over the blocks otherwise
operation_deserialize(b, tv, op, exit_on_one, is_range_set, nb_range_to) ==
    With(engine_start(b, tv, op), LAMBDA e :
        IF e.s.state = "e_list_ids"
        THEN process_id_list(engine_conf(b, op, exit_on_one, is_range_set,
                                         nb_range_to), e)
        ELSE it_deserialize(engine_conf(b, op, exit_on_one, is_range_set,
                                        nb_range_to), e))

(* ------------------------------ state ---------------------------------- *)

\* the most calls of the serializer's setters before a serialization
MaxConfigCalls == 1

Iv(a, b) == a .. b

\* bits k of word j for k in pat
InWord(j, pat) == { word_bits * j + k : k \in pat }

WordPat1 == {0, 1, 3, 4, 6, 9, 10, 12, 15, 17, 18, 20, 23, 25, 26, 28, 30, 31}

WordPat2 == {0, 2, 3, 5, 8, 9, 11, 14, 16, 17, 19, 22, 24, 27, 29, 30}

Scattered == {1, 9, 33, 64, 90, 120}

\* block contents that between them make the classifier choose every
\* encoding the serializer can write
BlockBits ==
    << {128}, {0, 255}, AllBits \ {5},
       Iv(2, 5) \cup Iv(20, 30) \cup Iv(60, 70) \cup Iv(100, 110),
       Scattered, AllBits \ Scattered,
       Iv(0, 31) \cup Iv(200, 210),
       { k \in AllBits : k % 7 = 0 }, { k \in AllBits : k % 7 # 0 },
       { k \in AllBits : (k \div 16) % 2 = 1 },
       { k \in AllBits : k % 3 = 0 },
       InWord(0, WordPat1) \cup InWord(2, WordPat2) \cup InWord(4, WordPat1)
          \cup InWord(6, WordPat2),
       {0, 1} >>

\* S fits a GAP block of the longest level
FitsGap(S) == gap_calc_level(Len(RunEnds(S)) + 1) >= 0

bit_blk(S) == [t |-> "bit", bits |-> S]

gap_blk(S) == [t |-> "gap", bits |-> S]

\* the blocks a vector can hold with the contents of BlockBits
Blocks ==
    { bit_blk(BlockBits[c]) : c \in 1 .. Len(BlockBits) }
    \cup { gap_blk(BlockBits[c]) :
             c \in { d \in 1 .. Len(BlockBits) : FitsGap(BlockBits[d]) } }

\* the blocks placed among runs of absent and FULL blocks
RunBlocks == { bit_blk(BlockBits[2]), gap_blk(BlockBits[4]),
               bit_blk(BlockBits[9]), bit_blk(AllBits), bit_blk({}) }

\* the lengths of the runs of absent blocks the vectors of a single block
\* start with: the shortest and the longest run the one-byte token takes,
\* and the shortest run past it
RunStarts == {2, 127, 128}

\* the source vectors: a single block; a block after an absent block and
\* before a run of two FULL blocks; a block between FULL blocks, short and
\* long runs of absent blocks and a FULL tail
Sources ==
    { (0 :> c) : c \in Blocks }
    \cup { (1 :> c) @@ (2 :> full_block) @@ (3 :> full_block)
           @@ (4 :> bit_blk(BlockBits[5])) : c \in RunBlocks }
    \cup { (0 :> full_block) @@ (3 :> c)
           @@ (set_total_blocks - 5 :> gap_blk(BlockBits[1]))
           @@ (set_total_blocks - 2 :> full_block)
           @@ (set_total_blocks - 1 :> full_block) : c \in RunBlocks }
    \cup { (set_total_blocks - 1 :> bit_blk(Scattered)), << >> }
    \cup { (nb :> gap_blk(BlockBits[1])) : nb \in RunStarts }

\* a target vector holding block x where the sources hold blocks and runs
Target(x) ==
    (0 :> x) @@ (1 :> x) @@ (2 :> bit_blk(Scattered)) @@ (3 :> x)
    @@ (100 :> gap_blk({7}))

Targets ==
    { << >>, Target(bit_blk(Iv(4, 25) \cup {255})),
      Target(gap_blk(Iv(4, 25) \cup {255})), Target(full_block) }

\* bvector::optimize(temp_block, opt_compress): empty blocks freed, all-one
\* blocks made FULL, blocks that fit a GAP block made GAP blocks
optimize(v) ==
    LET opt(blk) == IF blk.bits = {} THEN null_block
                    ELSE IF blk.bits = AllBits THEN full_block
                    ELSE IF FitsGap(blk.bits) THEN gap_blk(blk.bits)
                    ELSE bit_blk(blk.bits)
    IN  [k \in { n \in DOMAIN v : v[n].bits # {} } |-> opt(v[k])]

\* blocks_manager::zero_block for every block of Z
zero_blocks(v, Z) == [k \in DOMAIN v \ Z |-> v[k]]

VARIABLES
    bv,                \* the vector handed to the serializer
    bv0,               \* its content when the serializer was called
    clevel,            \* serializer::compression_level_
    gap_serial,        \* serializer::gap_serial_
    byte_order_serial, \* serializer::byte_order_serial_
    free_,             \* serializer::free_
    ncfg,              \* setter calls made so far
    buf,               \* the serialized stream
    tv,                \* the vector the stream is read into
    tv0,               \* its content when the reader was called
    strat,             \* the target's new-blocks strategy
    ret,               \* the value the reader returned
    err,               \* the reader threw the SerialFormat error
    call,              \* the serializer entry point that wrote buf
    rcall,             \* the reader entry point called and its arguments
    tamper,            \* what was changed in buf after it was written
    arg,               \* the argument of a primitive that is applied alone
    res,               \* what the primitive returned
    pc

vars == << bv, bv0, clevel, gap_serial, byte_order_serial, free_, ncfg, buf,
           tv, tv0, strat, ret, err, call, rcall, tamper, arg, res, pc >>

\* the arguments of a reader call
reader_call(reader, op, exit_on_one, from, to) ==
    [reader |-> reader, op |-> op, exit_on_one |-> exit_on_one,
     from |-> from, to |-> to]

\* serializer(): compression level 5, no GAP levels, byte order written;
\* the vector to serialize is one of Src
InitFrom(Src) ==
    /\ bv \in Src
    /\ bv0 = bv
    /\ clevel = set_compression_max
    /\ gap_serial = FALSE
    /\ byte_order_serial = TRUE
    /\ free_ = FALSE
    /\ ncfg = 0
    /\ buf = << >>
    /\ tv = << >>
    /\ tv0 = << >>
    /\ strat = "BM_BIT"
    /\ ret = 0
    /\ err = FALSE
    /\ call = "none"
    /\ rcall = reader_call("none", "set_OR", FALSE, 0, 0)
    /\ tamper = "none"
    /\ arg = << >>
    /\ res = << >>
    /\ pc = "init"

Init == InitFrom(Sources)

unchanged_reader ==
    UNCHANGED << tv, tv0, strat, ret, err, rcall, tamper, arg, res >>

\* serializer::set_compression_level
set_compression_level ==
    /\ pc = "init" /\ ncfg < MaxConfigCalls
    /\ \E l \in 0 .. (set_compression_max + 1) :
          clevel' = IF l <= set_compression_max THEN l ELSE clevel
    /\ ncfg' = ncfg + 1
    /\ UNCHANGED << bv, bv0, gap_serial, byte_order_serial, free_, buf, call,
                    pc >>
    /\ unchanged_reader

\* serializer::gap_length_serialization
gap_length_serialization ==
    /\ pc = "init" /\ ncfg < MaxConfigCalls
    /\ \E value \in BOOLEAN : gap_serial' = value
    /\ ncfg' = ncfg + 1
    /\ UNCHANGED << bv, bv0, clevel, byte_order_serial, free_, buf, call, pc >>
    /\ unchanged_reader

\* serializer::byte_order_serialization
byte_order_serialization ==
    /\ pc = "init" /\ ncfg < MaxConfigCalls
    /\ \E value \in BOOLEAN : byte_order_serial' = value
    /\ ncfg' = ncfg + 1
    /\ UNCHANGED << bv, bv0, clevel, gap_serial, free_, buf, call, pc >>
    /\ unchanged_reader

\* what a serialize call that worked on the vector v leaves behind: the
\* bytes in the buffer and v without the blocks it freed
serializer_returns(v, r) ==
    /\ buf' = r.out
    /\ bv' = zero_blocks(v, r.zeroed)

\* serializer::serialize(bv, buf, stat)
Serialize ==
    /\ pc = "init"
    /\ serializer_returns(bv, serialize_buffer(bv, clevel, gap_serial,
                                               byte_order_serial, free_))
    /\ free_' = FALSE
    /\ call' = "serialize"
    /\ pc' = "serialized"
    /\ UNCHANGED << bv0, clevel, gap_serial, byte_order_serial, ncfg >>
    /\ unchanged_reader

\* serializer::optimize_serialize_destroy: sets the destructive flag,
\* optimizes bv, calls serialize(bv, buf, stat) and restores the flag
OptimizeSerializeDestroy ==
    /\ pc = "init"
    /\ With(optimize(bv), LAMBDA opt :
            serializer_returns(opt, serialize_buffer(opt, clevel, gap_serial,
                                                     byte_order_serial, TRUE)))
    /\ free_' = FALSE
    /\ call' = "optimize_serialize_destroy"
    /\ pc' = "serialized"
    /\ UNCHANGED << bv0, clevel, gap_serial, byte_order_serial, ncfg >>
    /\ unchanged_reader

\* the reader's result r stored in the target's variables
reader_returns(r) ==
    /\ tv' = r.tv
    /\ ret' = r.ret
    /\ err' = r.err
    /\ strat' = r.strat

\* bm::deserialize(target, buf) for a target vector drawn from Targets
Deserialize ==
    /\ pc = "serialized"
    /\ \E t \in Targets :
          /\ tv0' = t
          /\ reader_returns(deserialize(buf, t, strat))
    /\ rcall' = reader_call("deserialize", "set_OR", FALSE, 0, 0)
    /\ pc' = "done"
    /\ UNCHANGED << bv, bv0, clevel, gap_serial, byte_order_serial, free_,
                    ncfg, buf, call, tamper, arg, res >>

Next ==
    \/ set_compression_level
    \/ gap_length_serialization
    \/ byte_order_serialization
    \/ Serialize
    \/ OptimizeSerializeDestroy
    \/ Deserialize

Spec == Init /\ [][Next]_vars

(* ------------------------------ operation engine runs ------------------ *)

\* the source vectors of the runs of the operation engine: single blocks
\* of each form, blocks among runs of absent and FULL blocks with and
\* without a FULL tail, FULL blocks only, no block
OpSources ==
    { (0 :> bit_blk(BlockBits[5])), (0 :> gap_blk(BlockBits[4])),
      (0 :> bit_blk(BlockBits[12])), (0 :> bit_blk(BlockBits[9])),
      (1 :> bit_blk(BlockBits[2])) @@ (2 :> full_block) @@ (3 :> full_block)
          @@ (4 :> bit_blk(BlockBits[5])),
      (0 :> full_block) @@ (3 :> gap_blk(BlockBits[4]))
          @@ (set_total_blocks - 5 :> gap_blk(BlockBits[1]))
          @@ (set_total_blocks - 2 :> full_block)
          @@ (set_total_blocks - 1 :> full_block),
      (0 :> full_block) @@ (1 :> full_block),
      << >> }

\* bm::set_operation
SetOps ==
    { "set_AND", "set_OR", "set_XOR", "set_SUB", "set_ASSIGN", "set_COUNT",
      "set_COUNT_AND", "set_COUNT_XOR", "set_COUNT_OR", "set_COUNT_SUB_AB",
      "set_COUNT_SUB_BA", "set_COUNT_A", "set_COUNT_B" }

\* the ranges [from, to] of bit indexes handed to deserialize_range
Ranges ==
    { << 0, 10 >>, << 4, gap_max_bits - 1 >>,
      << gap_max_bits + 2, 3 * gap_max_bits + 5 >>,
      << 0, 4 * gap_max_bits + 100 >>,
      << 2 * gap_max_bits, set_total_blocks * gap_max_bits - 1 >> }

\* the bits of block k that lie in the range [from, to] of bit indexes
range_bits(k, from, to) ==
    { j \in AllBits : from <= k * gap_max_bits + j
                        /\ k * gap_max_bits + j <= to }

\* a target set to the range [from, to]: the vector of the bits from .. to,
\* its blocks FULL where the range covers them and of the form t at the
\* ends of the range
ranged_target(from, to, t) ==
    [k \in (from \div gap_max_bits) .. (to \div gap_max_bits) |->
        IF range_bits(k, from, to) = AllBits THEN full_block
        ELSE [t |-> t, bits |-> range_bits(k, from, to)]]

\* tag values that no encoding uses: sgapbit, sgapgap, gapbit and values
\* past the last tag
ReservedTags == { set_block_sgapbit, set_block_sgapgap, set_block_gapbit,
                  set_block_bit_digest0 + 1, 127 }

InitOp == InitFrom(OpSources)

\* the result r of the operation engine stored in the target's variables
engine_returns(r) ==
    /\ tv' = r.tv
    /\ ret' = r.ret
    /\ err' = r.err

\* operation_deserializer::deserialize(target, buf, temp, op, exit_on_one)
OperationDeserialize ==
    /\ pc = "serialized"
    /\ \E t \in Targets, o \in SetOps, x \in BOOLEAN :
          /\ tv0' = t
          /\ rcall' = reader_call("operation_deserialize", o, x, 0, 0)
          /\ engine_returns(operation_deserialize(buf, t, o, x, FALSE, 0))
    /\ pc' = "done"
    /\ UNCHANGED << bv, bv0, clevel, gap_serial, byte_order_serial, free_,
                    ncfg, buf, call, tamper, strat, arg, res >>

\* operation_deserializer::deserialize_range(target, buf, temp, from, to)
\* with iterator_deserializer::set_range, for a target drawn from Targets
\* and for a target set to the range
DeserializeRange ==
    /\ pc = "serialized"
    /\ \E rg \in Ranges :
       \E t \in Targets \cup { ranged_target(rg[1], rg[2], "bit"),
                                ranged_target(rg[1], rg[2], "gap") } :
          /\ tv0' = t
          /\ rcall' = reader_call("deserialize_range", "set_AND", FALSE,
                                  rg[1], rg[2])
          /\ engine_returns(operation_deserialize(buf, t, "set_AND", FALSE,
                                TRUE, rg[2] \div gap_max_bits))
    /\ pc' = "done"
    /\ UNCHANGED << bv, bv0, clevel, gap_serial, byte_order_serial, free_,
                    ncfg, buf, call, tamper, strat, arg, res >>

unchanged_by_tamper ==
    UNCHANGED << bv, bv0, clevel, gap_serial, byte_order_serial, free_, ncfg,
                 call, tv, tv0, strat, ret, err, rcall, arg, res, pc >>

\* a stream handed to the readers with BM_HM_64_BIT added to its header
Tamper64Bit ==
    /\ pc = "serialized" /\ tamper = "none"
    /\ ~flag_set(buf[1], BM_HM_64_BIT)
    /\ buf' = [buf EXCEPT ![1] = @ + BM_HM_64_BIT]
    /\ tamper' = "64bit"
    /\ unchanged_by_tamper

\* a stream handed to the readers with a byte-order byte that is no
\* bm::ByteOrder; the stream is one of FULL blocks, whose tokens have no
\* field of more than one byte
TamperByteOrder ==
    /\ pc = "serialized" /\ tamper = "none"
    /\ ~flag_set(buf[1], BM_HM_NO_BO)
    /\ \A i \in DOMAIN bv0 : bv0[i].t = "full"
    /\ \E bo \in {2, 255} : buf' = [buf EXCEPT ![2] = bo]
    /\ tamper' = "byte_order"
    /\ unchanged_by_tamper

\* a stream handed to the readers with the tag of its first token replaced
\* by a reserved one; gapbit is put in the place of the tag of a GAP block
TamperTag ==
    /\ pc = "serialized" /\ tamper = "none"
    /\ \E tag \in ReservedTags :
          /\ tag = set_block_gapbit
                => buf[blocks_pos(buf[1]) + 1] = set_block_gap
          /\ buf' = [buf EXCEPT ![blocks_pos(buf[1]) + 1] = tag]
    /\ tamper' = "tag"
    /\ unchanged_by_tamper

NextOp ==
    \/ set_compression_level
    \/ gap_length_serialization
    \/ byte_order_serialization
    \/ Serialize
    \/ Tamper64Bit
    \/ TamperByteOrder
    \/ TamperTag
    \/ Deserialize
    \/ OperationDeserialize
    \/ DeserializeRange

SpecOp == InitOp /\ [][NextOp]_vars

(* ------------------------------ primitives applied alone --------------- *)

\* the state after construction with nothing to serialize, the argument of
\* the primitive drawn from Args
InitApply(Args) ==
    /\ bv = << >>
    /\ bv0 = << >>
    /\ clevel = set_compression_max
    /\ gap_serial = FALSE
    /\ byte_order_serial = TRUE
    /\ free_ = FALSE
    /\ ncfg = 0
    /\ buf = << >>
    /\ tv = << >>
    /\ tv0 = << >>
    /\ strat = "BM_BIT"
    /\ ret = 0
    /\ err = FALSE
    /\ call = "none"
    /\ rcall = reader_call("none", "set_OR", FALSE, 0, 0)
    /\ tamper = "none"
    /\ arg \in Args
    /\ res = << >>
    /\ pc = "apply"

\* the primitive prim was applied to arg
applied(prim) ==
    /\ call' = prim
    /\ pc' = "applied"
    /\ UNCHANGED << bv, bv0, clevel, gap_serial, byte_order_serial, free_,
                    ncfg, buf, tv, tv0, strat, ret, err, rcall, tamper, arg >>

\* the primitive prim wrote the bytes of buf for arg
written(prim) ==
    /\ call' = prim
    /\ pc' = "written"
    /\ UNCHANGED << bv, bv0, clevel, gap_serial, byte_order_serial, free_,
                    ncfg, tv, tv0, strat, ret, err, rcall, tamper, arg >>

(* ------------------------------ decoders on the same bytes ------------- *)

\* the longest array the array forms of the decoders are asked for
MaxCount == 3

\* the buffers the decoders read: eight bytes, all equal or all different,
\* each below 128 so that a value of 32 bits is below 2^31
DecoderBytes ==
    { [k \in 1 .. 8 |-> (m * k + c) % 128] :
        m \in {0, 1, 37, 85}, c \in {0, 3, 100, 127} }

\* a read primitive of decoder (sw false) or decoder_little_endian (sw
\* true) called at position pos of b: the value v it returns and the
\* position of buf_ after the call
decoder_get_16(sw, b, pos) == [v |-> get_16(sw, b, pos), pos |-> pos + 2]

decoder_get_32(sw, b, pos) == [v |-> get_32(sw, b, pos), pos |-> pos + 4]

decoder_get_64(sw, b, pos) == [v |-> get_64(sw, b, pos), pos |-> pos + 8]

decoder_get_16_arr(sw, b, pos, count) ==
    [v |-> get_16_arr(sw, b, pos, count), pos |-> pos + 2 * count]

decoder_get_32_arr(sw, b, pos, count) ==
    [v |-> get_words(sw, b, pos, count), pos |-> pos + 4 * count]

\* what the two decoders return for the same bytes
both_decoders(native, swapped) == [native |-> native, swapped |-> swapped]

\* get_16() of both decoders
Get16 ==
    /\ pc = "apply"
    /\ res' = both_decoders(decoder_get_16(FALSE, arg, 0),
                            decoder_get_16(TRUE, arg, 0))
    /\ applied("get_16")

\* get_32() of both decoders
Get32 ==
    /\ pc = "apply"
    /\ res' = both_decoders(decoder_get_32(FALSE, arg, 0),
                            decoder_get_32(TRUE, arg, 0))
    /\ applied("get_32")

\* get_64() of both decoders
Get64 ==
    /\ pc = "apply"
    /\ res' = both_decoders(decoder_get_64(FALSE, arg, 0),
                            decoder_get_64(TRUE, arg, 0))
    /\ applied("get_64")

\* get_16(s, count) of both decoders
Get16Arr ==
    /\ pc = "apply"
    /\ \E count \in 1 .. MaxCount :
          res' = both_decoders(decoder_get_16_arr(FALSE, arg, 0, count),
                               decoder_get_16_arr(TRUE, arg, 0, count))
    /\ applied("get_16_arr")

\* get_32(w, count) of both decoders
Get32Arr ==
    /\ pc = "apply"
    /\ \E count \in 1 .. 2 :
          res' = both_decoders(decoder_get_32_arr(FALSE, arg, 0, count),
                               decoder_get_32_arr(TRUE, arg, 0, count))
    /\ applied("get_32_arr")

InitDecoder == InitApply(DecoderBytes)

NextDecoder ==
    \/ Get16
    \/ Get32
    \/ Get64
    \/ Get16Arr
    \/ Get32Arr

SpecDecoder == InitDecoder /\ [][NextDecoder]_vars

(* ------------------------------ classifier on sparse blocks ------------ *)

\* the bits of the sparse blocks: ten bits in one run, in two runs, in five
\* pairs, every second bit and ten bits far apart
TenBits ==
    { { s + d * k : k \in 0 .. 9 } : s \in {0, 3}, d \in {1, 2, 25} }
    \cup { Iv(s, s + 4) \cup Iv(100, 104) : s \in {0, 10} }
    \cup { { s + 20 * k + j : k \in 0 .. 4, j \in 0 .. 1 } : s \in {0, 30} }

\* the blocks handed to the classifier with the compression level set
ClassifierArgs ==
    { [blk |-> c, clevel |-> l] :
        c \in { bit_blk(S) : S \in TenBits }
              \cup { gap_blk(S) : S \in { T \in TenBits : FitsGap(T) } },
        l \in 0 .. set_compression_max }

\* serializer::find_gap_best_encoding on a GAP block
FindGapBestEncoding ==
    /\ pc = "apply" /\ arg.blk.t = "gap"
    /\ res' = find_gap_best_encoding(arg.blk.bits, arg.clevel)
    /\ applied("find_gap_best_encoding")

\* serializer::find_bit_best_encoding on a bit block
FindBitBestEncoding ==
    /\ pc = "apply" /\ arg.blk.t = "bit"
    /\ res' = find_bit_best_encoding(arg.blk.bits, arg.clevel)
    /\ applied("find_bit_best_encoding")

InitClassifier == InitApply(ClassifierArgs)

NextClassifier ==
    \/ FindGapBestEncoding
    \/ FindBitBestEncoding

SpecClassifier == InitClassifier /\ [][NextClassifier]_vars

(* ------------------------------ interpolative coder -------------------- *)

\* the longest array of values next to each other given to the coder
BicLen == 7

\* the widest range of a single value
BicMaxR == 20

\* the values of base picked by the bits of m, in the order of base
RECURSIVE Pick(_, _)
Pick(base, m) ==
    IF base = << >> THEN << >>
    ELSE (IF m % 2 = 1 THEN << Head(base) >> ELSE << >>)
         \o Pick(Tail(base), m \div 2)

\* the values the arrays are picked from with the bounds lo and hi: values
\* next to each other from 0 on and up to 65535, values far apart within
\* narrow and wide bounds
BicRanges ==
    { [base |-> [k \in 1 .. BicLen |-> k - 1], lo |-> 0, hi |-> BicLen - 1],
      [base |-> [k \in 1 .. BicLen |-> 65535 - BicLen + k],
       lo |-> 65536 - BicLen, hi |-> 65535],
      [base |-> << 5, 6, 20, 64, 200, 255 >>, lo |-> 5, hi |-> 255],
      [base |-> << 5, 6, 20, 64, 200, 255 >>, lo |-> 0, hi |-> 300],
      [base |-> << 0, 1, 1000, 40000, 65535 >>, lo |-> 0, hi |-> 65535] }

\* the arguments arr (strictly increasing), lo, hi of the coder: the arrays
\* picked from the ranges, and every single value of every narrow range
BicArgs ==
    UNION { { [arr |-> Pick(c.base, m), lo |-> c.lo, hi |-> c.hi] :
                m \in 1 .. (Pow2(Len(c.base)) - 1) } : c \in BicRanges }
    \cup { [arr |-> << v[1] >>, lo |-> 0, hi |-> v[2]] :
             v \in { w \in (0 .. BicMaxR) \X (0 .. BicMaxR) : w[1] <= w[2] } }

\* bit_out::bic_encode_u16_cm(arr, sz, lo, hi) and flush()
BicEncode ==
    /\ pc = "apply"
    /\ LET bits == bic_encode_u16_cm(arg.arr, 0, Len(arg.arr), arg.lo, arg.hi)
       IN  /\ buf' = bit_out_bytes(bits)
           /\ res' = [nbits |-> Len(bits)]
    /\ written("bic_encode_u16_cm")

\* bit_in::bic_decode_u16_cm(arr, sz, lo, hi) on the bytes written
BicDecode ==
    /\ pc = "written" /\ call = "bic_encode_u16_cm"
    /\ LET r == bic_decode_u16_cm(FALSE, buf, 0, 0, Len(arg.arr), arg.lo,
                                   arg.hi)
       IN  res' = [nbits |-> res.nbits, arr |-> r.arr, p |-> r.p]
    /\ applied("bic_decode_u16_cm")

InitBic == InitApply(BicArgs)

NextBic ==
    \/ BicEncode
    \/ BicDecode

SpecBic == InitBic /\ [][NextBic]_vars

(* ------------------------------ bit_out and bit_in, word by word ------- *)
(* The accumulators of bit_out and bit_in as the code keeps them: accum_   *)
(* is the set of its one bits, used_bits_ the count of bits written or     *)
(* taken.  A shift by 32, the width of the accumulator, is undefined; it   *)
(* gives the operand unshifted where the machine takes the count modulo 32 *)
(* ("mod") and zero where it does not ("zero").                            *)

\* the one bits of the value v, which is below 2^31
OneBits(v) == { k \in 0 .. (word_bits - 2) : BitOf(v, k) = 1 }

\* the value of the bits S
RECURSIVE BitsValue(_)
BitsValue(S) ==
    IF S = {} THEN 0
    ELSE LET k == CHOOSE x \in S : TRUE IN Pow2(k) + BitsValue(S \ {k})

\* A << n and A >> n for an accumulator A
shl(A, n, ub) ==
    IF n < word_bits THEN { k + n : k \in A } \cap (0 .. (word_bits - 1))
    ELSE IF ub = "mod" THEN A ELSE {}

shr(A, n) == { k - n : k \in { j \in A : j >= n } }

\* bit_out(dest)
bout_start == [out |-> << >>, acc |-> {}, used |-> 0]

\* dest_.put_32(acc); acc = used = 0
bout_put_32(w) ==
    [out |-> w.out \o put_bitset(w.acc, 4), acc |-> {}, used |-> 0]

\* the loop of bit_out::put_bits and of bit_out::gamma that stores the count
\* low bits of value
RECURSIVE bout_fill(_, _, _, _)
bout_fill(w, value, count, ub) ==
    IF count = 0 THEN w
    ELSE LET acc == w.acc \cup shl(OneBits(value), w.used, ub)
             free_bits == word_bits - w.used
         IN  IF count <= free_bits
             THEN [w EXCEPT !.acc = acc, !.used = @ + count]
             ELSE bout_fill(bout_put_32([w EXCEPT !.acc = acc]),
                            value \div Pow2(free_bits), count - free_bits, ub)

\* bit_out::put_bits
bout_put_bits(w, value, count, ub) ==
    With(bout_fill(w, value % Pow2(count), count, ub), LAMBDA w1 :
        IF w1.used = word_bits THEN bout_put_32(w1) ELSE w1)

\* count words of zero bits
zero_words(count) == [k \in 1 .. 4 * count |-> 0]

\* bit_out::gamma up to the zero bits: logv zero bits put
bout_zero_bits(w, logv) ==
    IF logv >= word_bits - w.used
    THEN [out  |-> bout_put_32(w).out
                   \o zero_words((logv - (word_bits - w.used)) \div word_bits),
          acc  |-> {},
          used |-> (logv - (word_bits - w.used)) % word_bits]
    ELSE [w EXCEPT !.used = @ + logv]

\* bit_out::gamma, the one bit after the zero bits
bout_one_bit(w) ==
    With([w EXCEPT !.acc = @ \cup {w.used}, !.used = @ + 1], LAMBDA w1 :
        IF w1.used = word_bits THEN bout_put_32(w1) ELSE w1)

\* bit_out::gamma
bout_gamma(w, value, ub) ==
    With(bit_scan_reverse32(value), LAMBDA logv :
        bout_fill(bout_one_bit(bout_zero_bits(w, logv)),
                  value % Pow2(logv), logv, ub))

bout_flush_always(w) == bout_put_32(w)

\* bit_out::flush
bout_flush(w) == IF w.used # 0 THEN bout_put_32(w) ELSE w

\* bit_in(decoder) on the bytes from pos on
bin_start(pos) ==
    [pos |-> pos, acc |-> {}, used |-> word_bits, val |-> 0, err |-> FALSE]

\* acc = src_.get_32(), used bits of the word counted as taken; a read past
\* the end of the bytes is marked
bin_get_32(b, r, used) ==
    IF r.pos + 4 > Len(b)
    THEN [r EXCEPT !.acc = {}, !.used = used, !.err = TRUE]
    ELSE [r EXCEPT !.acc = get_words(FALSE, b, r.pos, 1), !.pos = @ + 4,
                   !.used = used]

\* the while loop of bit_in::gamma: the zero bits up to the first one bit;
\* val counts them
RECURSIVE bin_zero_bits(_, _)
bin_zero_bits(b, r) ==
    IF r.err THEN r
    ELSE IF r.acc = {}
    THEN bin_zero_bits(b, bin_get_32(b, [r EXCEPT !.val = @ + word_bits
                                                           - r.used], 0))
    ELSE LET first_bit_idx == CHOOSE k \in r.acc : \A j \in r.acc : k <= j
         IN  [r EXCEPT !.acc = shr(@, first_bit_idx),
                       !.val = @ + first_bit_idx,
                       !.used = @ + first_bit_idx]

\* bit_in::gamma, "eat the border bit"
bin_border_bit(b, r) ==
    With(IF r.used = word_bits THEN bin_get_32(b, r, 1)
         ELSE [r EXCEPT !.used = @ + 1], LAMBDA r1 :
        [r1 EXCEPT !.acc = shr(@, 1)])

\* label take_accum of bit_in::gamma: zero_bits bits of the accumulator
\* under the leading one bit
bin_take_gamma(r, zero_bits) ==
    [r EXCEPT !.val = BitsValue((r.acc \cap (0 .. zero_bits))
                                \cup {zero_bits}),
              !.acc = shr(@, zero_bits), !.used = @ + zero_bits]

\* bit_in::gamma, "get the value", r.val the count of zero bits
bin_gamma_value(b, r) ==
    LET zero_bits == r.val
        free_bits == word_bits - r.used
    IN  IF r.err \/ zero_bits >= word_bits - 1 THEN [r EXCEPT !.err = TRUE]
        ELSE IF zero_bits <= free_bits THEN bin_take_gamma(r, zero_bits)
        ELSE IF r.used = word_bits
        THEN bin_take_gamma(bin_get_32(b, r, 0), zero_bits)
        ELSE With(bin_get_32(b, r, zero_bits - free_bits), LAMBDA r1 :
                [r1 EXCEPT !.val = BitsValue(
                               r.acc
                               \cup shl(r1.acc \cap (0 .. r1.used), free_bits,
                                        "zero")
                               \cup {zero_bits}),
                           !.acc = shr(@, r1.used)])

\* bit_in::gamma: the reader after the call, r.val the value returned
bin_gamma(b, r) ==
    With(IF r.used = word_bits THEN bin_get_32(b, r, 0) ELSE r, LAMBDA r1 :
        bin_gamma_value(b, bin_border_bit(b,
            bin_zero_bits(b, [r1 EXCEPT !.val = 0]))))

\* label take_accum of bit_in::get_bits
bin_take_bits(r, count) ==
    [r EXCEPT !.val = BitsValue(r.acc \cap (0 .. (count - 1))),
              !.acc = shr(@, count), !.used = @ + count]

\* bit_in::get_bits: the reader after the call, r.val the value returned
bin_get_bits(b, r, count) ==
    LET free_bits == word_bits - r.used
    IN  IF r.err THEN r
        ELSE IF count <= free_bits THEN bin_take_bits(r, count)
        ELSE IF r.used = word_bits
        THEN bin_take_bits(bin_get_32(b, r, 0), count)
        ELSE With(bin_get_32(b, r, count - free_bits), LAMBDA r1 :
                [r1 EXCEPT !.val = BitsValue(
                               r.acc
                               \cup shl(r1.acc \cap (0 .. (r1.used - 1)),
                                        free_bits, "zero")),
                           !.acc = shr(@, r1.used)])

(* ------------------------------ gamma codes and bit fields ------------- *)

\* the most calls made on one bit stream
MaxOps == 3

gamma_op(value) == [op |-> "gamma", value |-> value, count |-> 0]

bits_op(value, count) == [op |-> "put_bits", value |-> value, count |-> count]

\* the calls: gamma of values whose codes take 1, 3, 5, 7, 15 and 31 bits,
\* put_bits of fields of 2, 5 and 16 bits
BitOps ==
    { gamma_op(v) : v \in {1, 2, 3, 5, 8, 200, 32773, 65535} }
    \cup { bits_op(2, 2), bits_op(21, 5), bits_op(43690, 16) }

\* the sequences of calls made on one bit stream
BitOpSeqs == UNION { [1 .. n -> BitOps] : n \in 1 .. MaxOps }

\* the calls ops[i ..] made on the bit_out w
RECURSIVE bout_calls(_, _, _, _)
bout_calls(w, ops, i, ub) ==
    IF i > Len(ops) THEN w
    ELSE With(IF ops[i].op = "gamma" THEN bout_gamma(w, ops[i].value, ub)
              ELSE bout_put_bits(w, ops[i].value, ops[i].count, ub),
              LAMBDA w1 : bout_calls(w1, ops, i + 1, ub))

\* the values returned by gamma() and get_bits(count) called on the bit_in
\* r in the order of ops[i ..]
RECURSIVE bin_calls(_, _, _, _)
bin_calls(b, r, ops, i) ==
    IF i > Len(ops) THEN << >>
    ELSE With(IF ops[i].op = "gamma" THEN bin_gamma(b, r)
              ELSE bin_get_bits(b, r, ops[i].count),
              LAMBDA r1 : << IF r1.err THEN -1 ELSE r1.val >>
                          \o bin_calls(b, r1, ops, i + 1))

\* the calls of arg made on a bit_out, then flush()
BitOutWrite ==
    /\ pc = "apply"
    /\ \E ub \in {"mod", "zero"} :
          /\ buf' = bout_flush(bout_calls(bout_start, arg, 1, ub)).out
          /\ res' = [ub |-> ub]
    /\ written("bit_out")

\* gamma() and get_bits(count) called on a bit_in over the bytes written,
\* in the order of the calls of arg
BitInRead ==
    /\ pc = "written" /\ call = "bit_out"
    /\ res' = [ub |-> res.ub, vals |-> bin_calls(buf, bin_start(0), arg, 1)]
    /\ applied("bit_in")

InitBits == InitApply(BitOpSeqs)

NextBits ==
    \/ BitOutWrite
    \/ BitInRead

SpecBits == InitBits /\ [][NextBits]_vars

(* ------------------------------ zero-runs form ------------------------- *)

\* the most words of a block that are varied
MaxZeroRunWords == 8

\* the bit blocks given to encode_bit_interval: every choice of the words
\* that are not zero among the first MaxZeroRunWords words of the block
ZeroRunBlocks ==
    { UNION { InWord(j, IF j % 2 = 0 THEN WordPat1 ELSE WordPat2) : j \in J }
        : J \in SUBSET (0 .. (Min(set_block_size, MaxZeroRunWords) - 1)) }

\* serializer::encode_bit_interval(blk, enc, 0)
EncodeBitInterval ==
    /\ pc = "apply"
    /\ buf' = encode_bit_interval(arg)
    /\ res' = << >>
    /\ written("encode_bit_interval")

\* deseriaizer_base::read_0runs_block(dec, blk) after the tag of the record
Read0runsBlock ==
    /\ pc = "written" /\ call = "encode_bit_interval"
    /\ res' = read_0runs_block(FALSE, buf, 1)
    /\ applied("read_0runs_block")

InitZeroRuns == InitApply(ZeroRunBlocks)

NextZeroRuns ==
    \/ EncodeBitInterval
    \/ Read0runsBlock

SpecZeroRuns == InitZeroRuns /\ [][NextZeroRuns]_vars

(* ------------------------------ properties ----------------------------- *)

\* C1: deserializing the stream serialize wrote for a vector into an empty
\* vector gives a vector with exactly the bits of the serialized vector, at
\* every compression level and for every encoding the classifier chose
RoundTrip ==
    (pc = "done" /\ call = "serialize" /\ tv0 = << >>)
        => (~err /\ SameBits(tv, bv0))

\* a round trip of a non-empty vector has been made
RoundTripWitness ==
    /\ pc = "done" /\ call = "serialize" /\ tv0 = << >>
    /\ \E i \in DOMAIN bv0 : bv0[i].bits # {}
    /\ ~err /\ SameBits(tv, bv0)

\* the bits of a op b in one block, for the operations that modify the target
set_op_bits(op, A, B) ==
    CASE op = "set_AND" -> A \cap B
      [] op = "set_OR" -> A \cup B
      [] op = "set_XOR" -> (A \ B) \cup (B \ A)
      [] op = "set_SUB" -> A \ B

\* operation_deserializer::deserialize has been run with the operation op
\* and the flag exit_on_one on a stream that serialize wrote
engine_ran(ops, exit_on_one) ==
    /\ pc = "done" /\ tamper = "none"
    /\ rcall.reader = "operation_deserialize"
    /\ rcall.op \in ops /\ rcall.exit_on_one = exit_on_one

\* C2: operation_deserializer::deserialize(a, serialize(b), op) with op one
\* of AND, OR, XOR, SUB and exit_on_one = false leaves in a exactly the bits
\* of a op b, in every block the target, the old target or b has
OperationEquivalence ==
    engine_ran({"set_AND", "set_OR", "set_XOR", "set_SUB"}, FALSE)
        => /\ ~err
           /\ \A i \in DOMAIN tv \cup DOMAIN tv0 \cup DOMAIN bv0 :
                 block_bits(tv, i)
                     = set_op_bits(rcall.op, block_bits(tv0, i),
                                   block_bits(bv0, i))

\* the same in the blocks 0 .. set_total_blocks - 1 of the address range
OperationEquivalenceInRange ==
    engine_ran({"set_AND", "set_OR", "set_XOR", "set_SUB"}, FALSE)
        => /\ ~err
           /\ \A i \in 0 .. (set_total_blocks - 1) :
                 block_bits(tv, i)
                     = set_op_bits(rcall.op, block_bits(tv0, i),
                                   block_bits(bv0, i))

\* the bits in one block of the combination a counting operation counts
count_op_bits(op, A, B) ==
    CASE op = "set_COUNT_AND" -> A \cap B
      [] op = "set_COUNT_OR" -> A \cup B
      [] op = "set_COUNT_XOR" -> (A \ B) \cup (B \ A)
      [] op = "set_COUNT_SUB_AB" -> A \ B
      [] op = "set_COUNT_SUB_BA" -> B \ A
      [] op = "set_COUNT_A" -> A
      [] op = "set_COUNT_B" -> B

CountOps == { "set_COUNT_AND", "set_COUNT_OR", "set_COUNT_XOR",
              "set_COUNT_SUB_AB", "set_COUNT_SUB_BA", "set_COUNT_A",
              "set_COUNT_B" }

\* the number of bits of the combination op of the vectors a and b in the
\* blocks I
RECURSIVE count_op(_, _, _, _)
count_op(op, a, b, I) ==
    IF I = {} THEN 0
    ELSE Cardinality(count_op_bits(op, block_bits(a, CHOOSE i \in I : TRUE),
                                   block_bits(b, CHOOSE i \in I : TRUE)))
         + count_op(op, a, b, I \ {CHOOSE i \in I : TRUE})

\* C3: operation_deserializer::deserialize(a, serialize(b), op) with a
\* counting operation op and exit_on_one = false returns the number of bits
\* of the combination of a and b that op counts
CountEquivalence ==
    engine_ran(CountOps, FALSE)
        => /\ ~err
           /\ ret = count_op(rcall.op, tv0, bv0, DOMAIN tv0 \cup DOMAIN bv0)

\* the same for the streams that do not end with the token set_block_aone
CountEquivalenceNoTail ==
    (engine_ran(CountOps, FALSE) /\ set_total_blocks - 1 \notin DOMAIN bv0)
        => /\ ~err
           /\ ret = count_op(rcall.op, tv0, bv0, DOMAIN tv0 \cup DOMAIN bv0)

\* C4: deserialize of the stream serialize wrote for a vector, called on a
\* target that holds bits already, leaves in the target the union of the
\* two: every bit the target had and every bit of the vector, no other
AdditiveMerge ==
    (pc = "done" /\ rcall.reader = "deserialize" /\ tamper = "none")
        => /\ ~err
           /\ \A i \in DOMAIN tv \cup DOMAIN tv0 \cup DOMAIN bv0 :
                 block_bits(tv, i) = block_bits(tv0, i) \cup block_bits(bv0, i)

\* a stream has been merged into a target with a GAP block where a block
\* of the stream goes, each of the two with bits the other has not
AdditiveMergeWitness ==
    /\ pc = "done" /\ rcall.reader = "deserialize" /\ tamper = "none" /\ ~err
    /\ \E i \in DOMAIN tv0 \cap DOMAIN bv0 :
          /\ tv0[i].t = "gap" /\ bv0[i].t = "bit"
          /\ tv0[i].bits \ bv0[i].bits # {}
          /\ bv0[i].bits \ tv0[i].bits # {}
          /\ block_bits(tv, i) = tv0[i].bits \cup bv0[i].bits

\* deserialize_range has been run on a stream that serialize wrote
range_ran ==
    pc = "done" /\ tamper = "none" /\ rcall.reader = "deserialize_range"

\* the target holds exactly the bits of a AND b that lie in [from, to]
range_restricted ==
    \A i \in DOMAIN tv \cup DOMAIN tv0 \cup DOMAIN bv0 :
        block_bits(tv, i)
            = (block_bits(tv0, i) \cap block_bits(bv0, i))
                  \cap range_bits(i, rcall.from, rcall.to)

\* C5 as stated: deserialize_range(a, serialize(b), lo, hi) leaves in a the
\* bits of a AND b that lie in lo .. hi, for every a: the bits of a outside
\* the range are cleared
RangeRestriction ==
    range_ran => (~err /\ range_restricted)

\* C5, amended: the same for every target a that has no bit outside
\* lo .. hi when deserialize_range is called
RangeRestrictionOfRangedTarget ==
    (range_ran /\ \A i \in DOMAIN tv0 :
                     tv0[i].bits \subseteq range_bits(i, rcall.from, rcall.to))
        => (~err /\ range_restricted)

\* deserialize_range has been run on a target set to the range, with bits
\* that b has and bits that b does not have
RangeRestrictionWitness ==
    /\ range_ran /\ ~err /\ range_restricted
    /\ \A i \in DOMAIN tv0 :
          tv0[i].bits \subseteq range_bits(i, rcall.from, rcall.to)
    /\ \E i \in DOMAIN tv0 : block_bits(tv, i) # {}
    /\ \E i \in DOMAIN tv0 : block_bits(tv, i) # tv0[i].bits

SetModifyingOps == { "set_AND", "set_OR", "set_XOR", "set_SUB" }

\* the result of the operation the engine ran, a op b, has a bit
result_not_empty ==
    IF rcall.op \in CountOps
    THEN count_op(rcall.op, tv0, bv0, DOMAIN tv0 \cup DOMAIN bv0) # 0
    ELSE \E i \in DOMAIN tv0 \cup DOMAIN bv0 :
            set_op_bits(rcall.op, block_bits(tv0, i), block_bits(bv0, i))
                # {}

\* C6: with exit_on_one = true operation_deserializer::deserialize returns
\* a value other than 0 if and only if a op b has a bit, for the operations
\* that modify the target and for the counting ones
EarlyExit ==
    engine_ran(SetModifyingOps \cup CountOps, TRUE)
        => (~err /\ ((ret # 0) <=> result_not_empty))

\* the same for the counting operations alone
EarlyExitCounting ==
    engine_ran(CountOps, TRUE) => (~err /\ ((ret # 0) <=> result_not_empty))

\* a value other than 0 is returned only when a op b has a bit
EarlyExitSound ==
    engine_ran(SetModifyingOps \cup CountOps, TRUE)
        => (~err /\ ((ret # 0) => result_not_empty))

\* the tag of the first token of the stream
first_tag == buf[blocks_pos(buf[1]) + 1]

\* a reader has been run on a stream whose first tag is a reserved one
reserved_tag_read == pc = "done" /\ tamper = "tag"

\* C7: a reader that meets one of the reserved tags sgapbit, sgapgap,
\* gapbit or a value past the last tag throws the SerialFormat error and
\* decodes no block; this holds for deserializer::deserialize and for the
\* stream iterator under operation_deserializer
ReservedTagsRejected ==
    reserved_tag_read
        => (err /\ (rcall.op # "set_ASSIGN" => tv = tv0))

\* the same for the reserved tags other than gapbit, and for gapbit read
\* by the stream iterator
ReservedTagsRejectedButGapbit ==
    (reserved_tag_read /\ ~(first_tag = set_block_gapbit
                            /\ rcall.reader = "deserialize"))
        => (err /\ (rcall.op # "set_ASSIGN" => tv = tv0))

\* deserializer::deserialize reads a token tagged gapbit as a GAP block
GapbitDecodedAsGap ==
    (reserved_tag_read /\ first_tag = set_block_gapbit
                       /\ rcall.reader = "deserialize")
        => /\ ~err
           /\ \A i \in DOMAIN tv \cup DOMAIN tv0 \cup DOMAIN bv0 :
                 block_bits(tv, i) = block_bits(tv0, i) \cup block_bits(bv0, i)

\* a reader has been run on a stream whose byte-order byte is neither
\* BigEndian nor LittleEndian
invalid_byte_order_read ==
    /\ pc = "done" /\ tamper = "byte_order"
    /\ ~flag_set(buf[1], BM_HM_NO_BO)
    /\ buf[2] \notin {BigEndian, LittleEndian}

\* C8: a reader given a stream with a byte-order byte other than 0 and 1
\* throws the SerialFormat error and decodes no block
InvalidByteOrderRejected ==
    invalid_byte_order_read
        => (err /\ (rcall.op # "set_ASSIGN" => tv = tv0))

\* bm::deserialize reads such a stream of FULL blocks with the decoder of
\* the other byte order and merges its blocks into the target
InvalidByteOrderDecoded ==
    (invalid_byte_order_read /\ rcall.reader = "deserialize")
        => /\ ~err
           /\ \A i \in DOMAIN tv \cup DOMAIN tv0 \cup DOMAIN bv0 :
                 block_bits(tv, i) = block_bits(tv0, i) \cup block_bits(bv0, i)

\* a reader has been run on a stream with BM_HM_64_BIT in its header
wide_stream_read ==
    pc = "done" /\ tamper = "64bit" /\ flag_set(buf[1], BM_HM_64_BIT)

\* C9: a reader of the 32-bit address mode given a stream with the flag
\* BM_HM_64_BIT throws the SerialFormat error and leaves the bits of the
\* target as they were
AddressWidthRejected ==
    wide_stream_read
        => (err /\ (rcall.op # "set_ASSIGN" => SameBits(tv, tv0)))

\* the same for deserializer::deserialize alone
AddressWidthRejectedByDeserializer ==
    (wide_stream_read /\ rcall.reader = "deserialize")
        => (err /\ SameBits(tv, tv0))

\* the stream iterator does not look at the flag: the operation engine
\* runs on the stream as on one without it
AddressWidthIgnoredByIterator ==
    (wide_stream_read /\ rcall.reader # "deserialize") => ~err

\* optimize_serialize_destroy has returned
destroy_returned == pc # "init" /\ call = "optimize_serialize_destroy"

\* C10: optimize_serialize_destroy zeroes every block of bv it has written:
\* when it returns bv has no bit, and the stream in buf is the one of the
\* content bv had, as reading it into an empty vector shows
DestructiveEmptiesSource ==
    destroy_returned
        => /\ \A i \in DOMAIN bv : bv[i].bits = {}
           /\ (pc = "done" /\ tv0 = << >>) => (~err /\ SameBits(tv, bv0))

\* the stream optimize_serialize_destroy leaves in buf is the one of the
\* content bv had
DestructiveKeepsContent ==
    (destroy_returned /\ pc = "done" /\ tv0 = << >>)
        => (~err /\ SameBits(tv, bv0))

\* optimize_serialize_destroy leaves bv optimized and with all its bits
DestructiveLeavesSource ==
    destroy_returned => (bv = optimize(bv0) /\ SameBits(bv, bv0))

\* serialize has written the stream of a vector of one block, at index 0,
\* that is neither empty nor all ones
one_block_written ==
    /\ pc = "serialized" /\ call = "serialize" /\ tamper = "none"
    /\ DOMAIN bv0 = {0}
    /\ bv0[0].bits # {} /\ bv0[0].bits # AllBits

\* the plain record of a block: set_block_gap with the head and the run
\* ends but the last, set_block_bit with all the words
plain_record(blk) ==
    IF blk.t = "gap" THEN plain_gap_block(gap_block_of(blk.bits))
    ELSE plain_bit_block(blk.bits)

\* the bytes of the record of the one block in buf, between the header
\* and the final set_block_azero
one_block_record_len ==
    Len(buf) - Len(encode_header(gap_serial, byte_order_serial)) - 1

\* C11: the record serialize writes for a block is never longer than the
\* plain record of the block
CostMonotone ==
    one_block_written => one_block_record_len <= Len(plain_record(bv0[0]))

\* the same for the bit blocks alone
CostMonotoneBitBlocks ==
    (one_block_written /\ bv0[0].t = "bit")
        => one_block_record_len <= Len(plain_record(bv0[0]))

\* the record of a GAP block is at most two bytes longer than the plain one
CostNearMonotoneGapBlocks ==
    (one_block_written /\ bv0[0].t = "gap")
        => one_block_record_len <= Len(plain_record(bv0[0])) + 2

\* serialize has written a stream, which nothing has changed
stream_written == pc = "serialized" /\ tamper = "none"

zero_run_written ==
    /\ pc \in {"serialized", "done"} /\ tamper = "none"
    /\ 0 \notin DOMAIN bv0 /\ DOMAIN bv0 # {}
    /\ bv0[find_next_nz_block(bv0, 0)].bits # {}

\* the length of that run and the position of its token in the stream
first_run == find_next_nz_block(bv0, 0)
first_token_pos == blocks_pos(buf[1])
first_token == get_8(buf, first_token_pos)

\* the block loop of the deserializer after its pass over the first token,
\* and the stream iterator after the first token was read
after_first_pass ==
    deserialize_pass(FALSE, buf, deserialize_at(<< >>, first_token_pos, 0))
after_first_token == sit_next(FALSE, buf, serial_stream_iterator(FALSE, buf))

\* the stream iterator s after j calls of next
RECURSIVE sit_walk(_, _)
sit_walk(s, j) ==
    CASE j = 0 -> s
      [] j = 1 -> sit_next(FALSE, buf, s)
      [] OTHER -> With(sit_walk(s, j \div 2),
                       LAMBDA s1 : sit_walk(s1, j - j \div 2))

\* the first token is the one-byte token of the run: the high bit over the
\* run's length
high_bit_token == first_token = 128 + first_run

RECURSIVE byte_reversed(_, _)
byte_reversed(x, bytes) ==
    IF bytes = 0 THEN 0
    ELSE (x % 256) * Pow2(8 * (bytes - 1))
         + byte_reversed(x \div 256, bytes - 1)

\* the words of bytes bytes each, held as the set S of their bit positions,
\* with the bytes of every word in the opposite order
byte_reversed_bits(S, bytes) ==
    { (8 * bytes) * (k \div (8 * bytes))
      + 8 * (bytes - 1 - ((k % (8 * bytes)) \div 8)) + (k % 8) : k \in S }

\* a read primitive was applied by both decoders
decoder_read(prims) == pc = "applied" /\ call \in prims

\* the value the swapping decoder returned is the byte-reversed value of the
\* native decoder, element by element
byte_swapped ==
    CASE call = "get_16" -> res.swapped.v = byte_reversed(res.native.v, 2)
      [] call = "get_32" -> res.swapped.v = byte_reversed(res.native.v, 4)
      [] call = "get_64" -> res.swapped.v = byte_reversed_bits(res.native.v, 8)
      [] call = "get_16_arr" ->
            /\ Len(res.swapped.v) = Len(res.native.v)
            /\ \A k \in 1 .. Len(res.native.v) :
                  res.swapped.v[k] = byte_reversed(res.native.v[k], 2)
      [] call = "get_32_arr" ->
            res.swapped.v = byte_reversed_bits(res.native.v, 4)

DecoderPrims == {"get_16", "get_32", "get_64", "get_16_arr", "get_32_arr"}

\* C14: on the same bytes every read primitive of decoder_little_endian
\* (get_16, get_32, get_64, get_16(arr, n), get_32(arr, n)) returns, element
\* by element, the byte-reversed value of what decoder returns, and moves
\* the read position on by the same number of bytes
ByteSwappingReader ==
    decoder_read(DecoderPrims) =>
        (byte_swapped /\ res.swapped.pos = res.native.pos)

\* get_16, get_32 and get_32(arr, n) do so, and so does get_16(arr, 1)
ByteSwappingReader32 ==
    (\/ decoder_read({"get_16", "get_32", "get_32_arr"})
     \/ decoder_read({"get_16_arr"}) /\ Len(res.native.v) = 1)
        => (byte_swapped /\ res.swapped.pos = res.native.pos)

\* every primitive moves the read position as the native decoder does
ByteSwappingReaderAdvance ==
    decoder_read(DecoderPrims) => res.swapped.pos = res.native.pos

\* get_64 of decoder_little_endian leaves the first byte where it is, and
\* get_16(arr, n) gives every element the value of the first
ByteSwappingReader64 ==
    /\ decoder_read({"get_64"}) =>
          \A k \in 0 .. 7 : (k \in res.swapped.v) = (k \in res.native.v)
    /\ decoder_read({"get_16_arr"}) =>
          \A k \in 1 .. Len(res.swapped.v) :
              res.swapped.v[k] = res.swapped.v[1]

\* the classifier was applied to a block of ten set bits
sparse_classified ==
    /\ pc = "applied"
    /\ call \in {"find_gap_best_encoding", "find_bit_best_encoding"}
    /\ Cardinality(arg.blk.bits) = 10

\* C15: for a block of exactly ten set bits, wherever they are, the
\* classifier selects arrgap_bienc at compression level 5 and arrgap at
\* compression level 3 or below
SparseClassification ==
    sparse_classified =>
        /\ arg.clevel = 5 => res = set_block_arrgap_bienc
        /\ arg.clevel <= 3 => res = set_block_arrgap

\* the ten bits take more GAP words than there are bits
more_runs_than_bits == Cardinality(arg.blk.bits) < bit_gaps_of(arg.blk.bits)

\* C15, amended: for a GAP block of exactly ten set bits whose bit count is
\* below its GAP length the classifier selects arrgap_bienc at compression
\* level 5 and arrgap at compression level 3
SparseGapClassification ==
    (sparse_classified /\ call = "find_gap_best_encoding"
        /\ Cardinality(arg.blk.bits) < bit_gaps_of(arg.blk.bits) + 1)
        => /\ arg.clevel = 5 => res = set_block_arrgap_bienc
           /\ arg.clevel = 3 => res = set_block_arrgap

\* a GAP block of ten bits in five pairs was classified at level 5
SparseGapClassificationWitness ==
    /\ sparse_classified /\ call = "find_gap_best_encoding"
    /\ bit_gaps_of(arg.blk.bits) + 1 = 12
    /\ arg.clevel = 5 /\ res = set_block_arrgap_bienc

\* at the levels below 3 a GAP block is given the plain GAP form, and ten
\* bits in fewer GAP words than bits are never given an array form
SparseGapPlainForms ==
    (sparse_classified /\ call = "find_gap_best_encoding")
        => /\ arg.clevel <= 2 => res = set_block_gap
           /\ Cardinality(arg.blk.bits) >= bit_gaps_of(arg.blk.bits) + 1
                 => res \in {set_block_gap, set_block_gap_egamma,
                             set_block_gap_bienc}

\* a bit block of ten bits is given arrgap_bienc at level 5 only when its
\* bits are in more runs than ten, and never arrgap at level 3 or below
SparseBitClassification ==
    (sparse_classified /\ call = "find_bit_best_encoding")
        => /\ (arg.clevel = 5 /\ res = set_block_arrgap_bienc)
                 => more_runs_than_bits
           /\ arg.clevel <= 3 => res # set_block_arrgap
           /\ arg.clevel <= 1 => res = set_block_bit

\* an array was written by the interpolative coder and read back
bic_read_back == pc = "applied" /\ call = "bic_decode_u16_cm"

\* the bits of a value of the range 0 .. r: logv of r + 1 or one more
bic_code_lengths(r) ==
    IF r = 0 THEN {0}
    ELSE { bit_scan_reverse32(r + 1), bit_scan_reverse32(r + 1) + 1 }

\* C16: bic_decode_u16_cm(sz, lo, hi) on the bits bic_encode_u16_cm(arr, sz,
\* lo, hi) and flush wrote for a strictly increasing arr within lo .. hi
\* returns arr and reads as many bits as were written; the code of a single
\* value takes logv or logv + 1 bits, read by the decoder as written
BicRoundTrip ==
    bic_read_back =>
        /\ res.arr = arg.arr
        /\ res.p = res.nbits
        /\ Len(arg.arr) = 1 =>
              res.nbits \in bic_code_lengths(arg.hi - arg.lo)

\* an array of several values whose codes differ in length was read back,
\* and so was the last value 65535
BicRoundTripWitness ==
    /\ bic_read_back
    /\ Len(arg.arr) = 5 /\ arg.arr[5] = 65535 /\ res.arr = arg.arr
    /\ res.nbits > 32

\* the values of a sequence of calls were written and read back
bits_read_back == pc = "applied" /\ call = "bit_in"

\* the values the calls of arg wrote
written_values == [i \in 1 .. Len(arg) |-> arg[i].value]

\* the bits of the calls ops, first written first
RECURSIVE bits_of_calls(_, _)
bits_of_calls(ops, i) ==
    IF i > Len(ops) THEN << >>
    ELSE (IF ops[i].op = "gamma" THEN gamma(ops[i].value)
          ELSE put_bits(ops[i].value, ops[i].count))
         \o bits_of_calls(ops, i + 1)

\* the bits written before call i of arg
bits_before(i) == Len(bits_of_calls(SubSeq(arg, 1, i - 1), 1))

\* a put_bits call of arg is made when a gamma call has left the
\* accumulator of bit_out full
put_bits_on_full_accum ==
    \E i \in 2 .. Len(arg) :
        /\ arg[i].op = "put_bits" /\ arg[i - 1].op = "gamma"
        /\ bits_before(i) % word_bits = 0

\* C17: values written with bit_out::gamma and flushed are returned in order
\* by bit_in::gamma, wherever the zero bits, the one bit and the value bits
\* of a code fall among the 32-bit words, and also when the codes are
\* followed by put_bits fields read with get_bits
GammaRoundTrip == bits_read_back => res.vals = written_values

\* it is so when no put_bits call finds the accumulator full
GammaRoundTripNotFull ==
    (bits_read_back /\ ~put_bits_on_full_accum) => res.vals = written_values

\* it is so where a shift by 32 gives zero
GammaRoundTripZeroShift ==
    (bits_read_back /\ res.ub = "zero") => res.vals = written_values

\* the bytes written are the bits of the calls, first written first, in
\* whole words, when no put_bits call finds the accumulator full
BitOutBytes ==
    (pc = "written" /\ call = "bit_out" /\ ~put_bits_on_full_accum)
        => buf = bit_out_bytes(bits_of_calls(arg, 1))

\* the runs of the zero-runs record b from position pos on, the first of
\* them at word j and of type run_type, the types taken in turn:
\* [run_type, first, len]
RECURSIVE record_runs(_, _, _, _)
record_runs(b, pos, j, run_type) ==
    IF j >= set_block_size \/ pos + 2 > Len(b) THEN << >>
    ELSE With(get_16(FALSE, b, pos), LAMBDA len :
            << [run_type |-> run_type, first |-> j, len |-> len] >>
            \o (IF len = 0 THEN << >>
                ELSE record_runs(b, pos + 2 + (IF run_type THEN 4 * len ELSE 0),
                                 j + len, ~run_type)))

\* a block was written in the zero-runs form and read back
zero_runs_read_back == pc = "applied" /\ call = "read_0runs_block"

\* C18: the record encode_bit_interval writes for a bit block has the tag
\* bit_0runs and a start byte that is 1 iff word 0 is not zero; its runs are
\* in turn runs of zero words and runs that start and end with a non-zero
\* word, each of one word or more, and cover the words of the block;
\* read_0runs_block gives back the block, word for word
ZeroRunsRoundTrip ==
    zero_runs_read_back =>
        LET runs == record_runs(buf, 2, 0, buf[2] # 0)
        IN  /\ buf[1] = set_block_bit_0runs
            /\ buf[2] = (IF WordNZ(arg, 0) THEN 1 ELSE 0)
            /\ \A n \in 1 .. Len(runs) :
                  /\ runs[n].len >= 1
                  /\ runs[n].run_type
                        => /\ WordNZ(arg, runs[n].first)
                           /\ WordNZ(arg, runs[n].first + runs[n].len - 1)
                  /\ ~runs[n].run_type
                        => \A j \in runs[n].first
                                    .. (runs[n].first + runs[n].len - 1) :
                              ~WordNZ(arg, j)
            /\ Len(runs) >= 1
            /\ runs[Len(runs)].first + runs[Len(runs)].len = set_block_size
            /\ res.S = arg
            /\ res.pos = Len(buf)

\* a block with a zero word taken into a run of non-zero words, after a run
\* of zero words, was read back
ZeroRunsRoundTripWitness ==
    /\ zero_runs_read_back
    /\ ~WordNZ(arg, 0) /\ WordNZ(arg, 2) /\ ~WordNZ(arg, 3) /\ WordNZ(arg, 4)
    /\ ~WordNZ(arg, 5) /\ ~WordNZ(arg, 6)
    /\ res.S = arg
    /\ Len(record_runs(buf, 2, 0, buf[2] # 0)) >= 3


(* ------------------------------ run tokens ----------------------------- *)

\* a stream was written, which nothing has changed
runs_written == pc \in {"serialized", "done"} /\ tamper = "none"

\* the vector the block loop of the serializer walked
walked == IF call = "optimize_serialize_destroy" THEN optimize(bv0) ELSE bv0

\* every allocated block of v holds some bits, and every bit block of v some
\* zero bits: the blocks without bits are the absent ones, the blocks of
\* ones the FULL ones
runs_by_pointer(v) ==
    \A k \in DOMAIN v :
        /\ v[k].bits # {}
        /\ v[k].t = "bit" => v[k].bits # AllBits

\* the runs [from, to, one] of v: to - from blocks without bits (one FALSE)
\* or with all bits (one TRUE) from block from on, no such block before
\* from, and a different block at to
block_runs(v) ==
    LET same(k, one) ==
            block_bits(v, k) = IF one THEN AllBits ELSE {}
        run_end(k, one) ==
            CHOOSE e \in (k + 1) .. set_total_blocks :
                /\ e = set_total_blocks \/ ~same(e, one)
                /\ \A m \in (k + 1) .. (e - 1) : same(m, one)
    IN { [from |-> t[1], to |-> run_end(t[1], t[2]), one |-> t[2]] :
            t \in { u \in (0 .. set_total_blocks - 1) \X BOOLEAN :
                      /\ same(u[1], u[2])
                      /\ u[1] > 0 => ~same(u[1] - 1, u[2])
                      /\ run_end(u[1], u[2]) < set_total_blocks } }

\* the passes of the block loop of the deserializer over the stream from
\* the state d on: [d, to], the state before and after each pass
RECURSIVE read_passes(_)
read_passes(d) ==
    IF d.done \/ d.i >= set_total_blocks THEN << >>
    ELSE With(deserialize_pass(FALSE, buf, d), LAMBDA d1 :
            << [d |-> d, to |-> d1] >> \o read_passes(d1))

zero_run_tokens == {set_block_1zero, set_block_8zero, set_block_16zero,
                    set_block_32zero}

one_run_tokens == {set_block_1one, set_block_8one, set_block_16one,
                   set_block_32one}

\* the passes that read a run token
run_passes ==
    LET ps == read_passes(deserialize_at(<< >>, first_token_pos, 0))
    IN { ps[n] : n \in { m \in 1 .. Len(ps) :
            With(get_8(buf, ps[m].d.pos), LAMBDA bt :
                bt >= 128 \/ bt \in zero_run_tokens \cup one_run_tokens) } }

\* the run the pass p read a token of
run_read(p) ==
    [from |-> p.d.i, to |-> p.to.i,
     one |-> get_8(buf, p.d.pos) \in one_run_tokens]

\* the bytes of the token of a run of nb blocks, by the form its length
\* takes
token_form(nb, one) ==
    CASE nb = 1 -> << IF one THEN set_block_1one ELSE set_block_1zero >>
      [] nb > 1 /\ nb < 128 /\ ~one -> << 128 + nb >>
      [] nb > 1 /\ nb < 256 /\ (one \/ nb >= 128) ->
            << IF one THEN set_block_8one ELSE set_block_8zero, nb >>
      [] nb >= 256 /\ nb < 65536 ->
            << IF one THEN set_block_16one ELSE set_block_16zero,
               nb % 256, nb \div 256 >>
      [] OTHER ->
            << IF one THEN set_block_32one ELSE set_block_32zero,
               nb % 256, (nb \div 256) % 256, (nb \div 65536) % 256,
               nb \div 16777216 >>

\* the stream iterator at the token the pass p read, and after the token
sit_at(p) ==
    [sit_start EXCEPT !.state = "e_blocks", !.pos = p.d.pos,
                      !.block_idx = p.d.i]
sit_after(p) == sit_next(FALSE, buf, sit_at(p))

\* the pass p read the token of the form of its run's length; the block
\* loop of the deserializer moved on by the run's length, and set those
\* blocks of the target, and no other, to ones when the run is one of ones;
\* the stream iterator moved block_idx on by the run's length, by calls of
\* next as by skip_mono_blocks
run_token_read(p) ==
    LET r == run_read(p)
        nb == r.to - r.from
        s == sit_after(p)
    IN /\ SubSeq(buf, p.d.pos + 1, p.to.pos) = token_form(nb, r.one)
       /\ ~p.to.err
       /\ p.to.tv = IF r.one
                    THEN [k \in DOMAIN p.d.tv \cup (r.from .. (r.to - 1)) |->
                            IF k \in r.from .. (r.to - 1) THEN full_block
                            ELSE p.d.tv[k]]
                    ELSE p.d.tv
       /\ s.state = IF r.one THEN "e_one_blocks" ELSE "e_zero_blocks"
       /\ s.pos = p.to.pos /\ s.block_idx = r.from
       /\ skip_mono_blocks(s).block_idx = r.to
       /\ sit_walk(s, nb).block_idx = r.to
       /\ sit_walk(s, nb).state = "e_blocks"
       /\ sit_walk(s, nb - 1).state = s.state
       /\ sit_walk(s, nb).pos = p.to.pos

\* the run tokens of the stream are those of the runs of bv0, one token a
\* run, each read back over its run
run_tokens_of_runs ==
    /\ { run_read(p) : p \in run_passes } = block_runs(bv0)
    /\ \A p \in run_passes : run_token_read(p)

\* C19 as stated: for every run of nb >= 1 blocks without bits (of blocks
\* of ones) that a different block follows the serializer writes one run
\* token, of the form chosen by nb (1: 1zero / 1one; 2 .. 127 zero blocks:
\* the high-bit byte; below 256: 8-bit count; below 65536: 16-bit count;
\* else 32-bit count), and the deserializer and the stream iterator move
\* the block index on by nb on it, the nb blocks set to ones for a run of
\* ones
RunTokenRoundTrip == runs_written => run_tokens_of_runs

\* C19, amended: so it is for the vectors whose blocks without bits are the
\* absent ones and whose bit blocks hold some zero bits
RunTokenRoundTripByPointer ==
    (runs_written /\ runs_by_pointer(walked)) => run_tokens_of_runs

\* the stream of a vector with a FULL block, a short and a long run of
\* absent blocks before blocks with bits was read back
RunTokenRoundTripWitness ==
    /\ runs_written /\ runs_by_pointer(walked) /\ pc = "done" /\ ~err
    /\ tv0 = << >> /\ SameBits(tv, bv0)
    /\ \E p, q, r \in run_passes :
          /\ get_8(buf, p.d.pos) = set_block_1one
          /\ get_8(buf, q.d.pos) = 128 + 2
          /\ get_8(buf, r.d.pos) = set_block_8zero


(* ------------------------------ run tokens of every length ------------- *)
(* The token of a run is written and read alone, for the runs longer than  *)
(* a vector of set_total_blocks blocks holds here.                         *)

MaxShortRun == 300

\* the lengths of the runs: the short ones, and those around the step from
\* the 16-bit to the 32-bit count
RunLengths == (1 .. MaxShortRun) \cup {65535, 65536, 65537, 1000000}

RunTokenArgs == [nb : RunLengths, one : BOOLEAN]

\* zero_block: / full_block: of serializer::serialize for a run of arg.nb
\* blocks
WriteRunToken ==
    /\ pc = "apply"
    /\ buf' = IF arg.one THEN one_run_token(arg.nb)
              ELSE zero_run_token(arg.nb)
    /\ res' = << >>
    /\ written("run_token")

\* the token read by the block loop of the deserializer and by
\* serial_stream_iterator::next
ReadRunToken ==
    /\ pc = "written"
    /\ res' = [des |-> run_count(FALSE, buf, 0, get_8(buf, 0)),
               sit |-> sit_next(FALSE, buf,
                               [sit_start EXCEPT !.state = "e_blocks"])]
    /\ applied("run_token")

InitRunToken == InitApply(RunTokenArgs)

NextRunToken == WriteRunToken \/ ReadRunToken

SpecRunToken == InitRunToken /\ [][NextRunToken]_vars

\* the token of a run of any length has the form of the length, and both
\* readers take the length from it
RunTokenForms ==
    (pc = "applied" /\ call = "run_token") =>
        /\ buf = token_form(arg.nb, arg.one)
        /\ res.des = [x |-> arg.nb, pos |-> Len(buf)]
        /\ res.sit.state = IF arg.one THEN "e_one_blocks" ELSE "e_zero_blocks"
        /\ res.sit.pos = Len(buf)
        /\ res.sit.mono_block_cnt = arg.nb - 1
        /\ skip_mono_blocks(res.sit).block_idx = arg.nb
        /\ arg.nb <= MaxShortRun =>
              /\ sit_walk(res.sit, arg.nb).block_idx = arg.nb
              /\ sit_walk(res.sit, arg.nb).state = "e_blocks"


(* ------------------------------ engine and iterator indexes ------------ *)

\* the operation engine has run on a stream that nothing has changed
engine_walked ==
    /\ pc = "done" /\ tamper = "none"
    /\ rcall.reader \in {"operation_deserialize", "deserialize_range"}

\* what the engine was called with, and its state before the first pass
ran_conf ==
    engine_conf(buf, rcall.op, rcall.exit_on_one,
                rcall.reader = "deserialize_range",
                rcall.to \div gap_max_bits)
ran_start == engine_start(buf, tv0, rcall.op)

block_states == {"e_bit_block", "e_gap_block", "e_zero_blocks",
                 "e_one_blocks"}

\* the engine e is at the head of a case of a block or of a run
at_case_head(e) ==
    ~e.done /\ ~e.s.err /\ ~e.s.end_of_stream /\ e.s.state \in block_states

\* the passes over a run of zero blocks that it_zero_blocks takes at once
\* for the operations that count the target's blocks one by one: pass k
\* is entered when no pass before it left the loop
zero_run_passes(c, e) ==
    IF e.s.state = "e_zero_blocks"
       /\ c.op \notin {"set_ASSIGN", "set_SUB", "set_COUNT_AND", "set_OR",
                       "set_XOR", "set_COUNT_SUB_BA", "set_COUNT_B",
                       "set_AND"}
    THEN { k \in 0 .. e.s.mono_block_cnt :
             \A j \in zero_run_stops(c, e) : k <= j }
    ELSE {0}

\* BM_ASSERT(bv_block_idx == sit.block_idx()) at the head of the case the
\* engine e is at, in every pass the case is entered in
head_agrees(c, e) ==
    at_case_head(e) =>
        \A k \in zero_run_passes(c, e) :
            sit_steps(e.s, k).block_idx = e.idx + k

\* the assertion holds in every pass of the loop from the engine e on
RECURSIVE heads_agree(_, _)
heads_agree(c, e) ==
    IF e.done THEN TRUE
    ELSE IF ~head_agrees(c, e) THEN FALSE
    ELSE heads_agree(c, it_pass(c, e))

\* the states of the iterator whose cases the engine enters from e on
RECURSIVE cases_entered(_, _)
cases_entered(c, e) ==
    IF e.done THEN {}
    ELSE (IF at_case_head(e) THEN {e.s.state} ELSE {})
         \cup cases_entered(c, it_pass(c, e))

\* C20: in every pass of iterator_deserializer::deserialize over a stream
\* the serializer wrote, when the engine enters the case of a bit block, a
\* GAP block, a run of zero blocks or a run of blocks of ones, block_idx()
\* of the stream iterator equals bv_block_idx, for every operation, with
\* and without exit_on_one and a range
EngineIteratorIndex == engine_walked => heads_agree(ran_conf, ran_start)

\* the engine counted a target against a stream through the cases of a bit
\* block, a GAP block, a run of zero blocks and a run of blocks of ones,
\* block by block
EngineIteratorIndexWitness ==
    /\ engine_walked /\ ~err
    /\ rcall.op = "set_COUNT_XOR" /\ ~rcall.exit_on_one
    /\ block_states \subseteq cases_entered(ran_conf, ran_start)
    /\ heads_agree(ran_conf, ran_start)


(* ------------------------------ the tail of blocks of ones ------------- *)

\* the block indexes at which the engine enters case e_one_blocks on the
\* token set_block_aone, from the engine e on
RECURSIVE aone_heads(_, _)
aone_heads(c, e) ==
    IF e.done THEN {}
    ELSE (IF at_case_head(e) /\ e.s.state = "e_one_blocks"
             /\ e.s.block_type = set_block_aone
          THEN {e.idx} ELSE {})
         \cup aone_heads(c, it_pass(c, e))

\* block_idx of the iterator stays within set_total_blocks and the cases of
\* the engine are entered for the blocks of the address range only, from
\* the engine e on
RECURSIVE blocks_in_range(_, _)
blocks_in_range(c, e) ==
    IF e.s.block_idx > set_total_blocks THEN FALSE
    ELSE IF e.done THEN TRUE
    ELSE IF at_case_head(e) /\ e.idx >= set_total_blocks THEN FALSE
    ELSE blocks_in_range(c, it_pass(c, e))

\* the engine ran to the end of the stream with a counting operation that
\* adds the bits of a block for every block of ones of the stream
counted_to_end(ops) ==
    /\ engine_walked /\ rcall.reader = "operation_deserialize"
    /\ ~rcall.exit_on_one /\ rcall.op \in ops /\ ~err

\* the first block of the tail of blocks of ones of bv0
tail_start ==
    CHOOSE b \in 0 .. set_total_blocks :
        /\ \A k \in b .. (set_total_blocks - 1) : block_bits(bv0, k) = AllBits
        /\ b > 0 => block_bits(bv0, b - 1) # AllBits

\* the stream of bv0 ends with the token set_block_aone
aone_written ==
    /\ Len(buf) >= 2 /\ buf[Len(buf)] = set_block_end
    /\ buf[Len(buf) - 1] = set_block_aone
    /\ tail_start < set_total_blocks

\* C21: the token set_block_aone read by the stream iterator at block index
\* b gives set_total_blocks - b steps of blocks of ones: block_idx of the
\* iterator never exceeds set_total_blocks, the engine enters no case for a
\* block at or past set_total_blocks and leaves no such block in the
\* target, and COUNT, COUNT_OR and COUNT_B on an empty target add the bits
\* of a block once for each block of the tail
AllOnesTail ==
    (engine_walked /\ aone_written) =>
        /\ blocks_in_range(ran_conf, ran_start)
        /\ \A k \in DOMAIN tv : k < set_total_blocks
        /\ aone_heads(ran_conf, ran_start)
              \subseteq tail_start .. (set_total_blocks - 1)
        /\ counted_to_end({"set_COUNT", "set_COUNT_OR", "set_COUNT_B"})
              => /\ aone_heads(ran_conf, ran_start)
                      = tail_start .. (set_total_blocks - 1)
                 /\ tv0 = << >> =>
                      ret = count_op("set_COUNT_B", tv0, bv0, DOMAIN bv0)

\* the engine enters case e_one_blocks once more than the tail has blocks:
\* at every block of the tail and at set_total_blocks
AllOnesTailOneMore ==
    (aone_written
     /\ counted_to_end({"set_COUNT", "set_COUNT_OR", "set_COUNT_B"}))
        => aone_heads(ran_conf, ran_start) = tail_start .. set_total_blocks


(* ------------------------------ the end of the range ------------------- *)

\* deserialize_range has run on a stream that nothing has changed
range_walked ==
    /\ pc = "done" /\ tamper = "none" /\ rcall.reader = "deserialize_range"

\* the engine e is about to read a token of the stream
at_token(e) ==
    ~e.done /\ ~e.s.err /\ ~e.s.end_of_stream /\ e.s.state = "e_blocks"

\* the block indexes past the end of the range with which the engine reads
\* a token or enters the case of a block or a run, from the engine e on
RECURSIVE passes_past_range(_, _)
passes_past_range(c, e) ==
    IF e.done THEN {}
    ELSE (IF e.idx > c.nb_range_to /\ (at_token(e) \/ at_case_head(e))
          THEN {e.idx} ELSE {})
         \cup passes_past_range(c, it_pass(c, e))

\* the engine e skips a run of zero blocks to a block past the end of the
\* range, in some pass from e on
RECURSIVE run_skipped_past_range(_, _)
run_skipped_past_range(c, e) ==
    IF e.done THEN FALSE
    ELSE \/ /\ at_case_head(e) /\ e.s.state = "e_zero_blocks"
            /\ e.idx <= c.nb_range_to
            /\ ~it_pass(c, e).done /\ it_pass(c, e).idx > c.nb_range_to
         \/ run_skipped_past_range(c, it_pass(c, e))

\* C22: with a range set, once bv_block_idx exceeds the block of the end of
\* the range the engine reads no token of the stream and enters no case of
\* a block or a run: after a run of zero blocks skipped past the end of the
\* range the block that follows the run is not processed
RangeStop ==
    range_walked => passes_past_range(ran_conf, ran_start) = {}

\* so it is but after a run of zero blocks that is skipped past the end of
\* the range
RangeStopButAfterRun ==
    (range_walked /\ ~run_skipped_past_range(ran_conf, ran_start))
        => passes_past_range(ran_conf, ran_start) = {}

\* after such a run the token that follows it is read, and when it is the
\* token of a block the block is combined with the target block
RangeStopAfterRun ==
    (range_walked /\ run_skipped_past_range(ran_conf, ran_start))
        => passes_past_range(ran_conf, ran_start) # {}


(* ------------------------------ streams of id lists -------------------- *)
(* The serializer writes no stream with BM_HM_ID_LIST; the readers are     *)
(* given the streams of the old form: the header, the byte-order byte      *)
(* unless BM_HM_NO_BO, the count of the ids and the ids, 32 bits each.     *)

MaxIds == 3

\* bit indexes in the blocks of the targets and in the last block
IdPool == {5, 255, gap_max_bits + 9, 2 * gap_max_bits + 2,
           100 * gap_max_bits + 7, set_total_blocks * gap_max_bits - 1}

\* the lists of at most MaxIds ids of IdPool in rising order
IdLists ==
    { l \in UNION { [1 .. n -> IdPool] : n \in 0 .. MaxIds } :
        \A k \in 1 .. (Len(l) - 1) : l[k] < l[k + 1] }

RECURSIVE put_32_arr(_)
put_32_arr(l) == IF l = << >> THEN << >> ELSE put_32(Head(l)) \o put_32_arr(Tail(l))

id_list_stream(no_bo, l) ==
    IF no_bo
    THEN put_8(BM_HM_DEFAULT + BM_HM_ID_LIST + BM_HM_NO_BO)
         \o put_32(Len(l)) \o put_32_arr(l)
    ELSE put_8(BM_HM_DEFAULT + BM_HM_ID_LIST) \o put_8(byte_order)
         \o put_32(Len(l)) \o put_32_arr(l)

InitIdList ==
    /\ bv = << >> /\ bv0 = << >>
    /\ clevel = set_compression_max
    /\ gap_serial = FALSE /\ byte_order_serial = TRUE /\ free_ = FALSE
    /\ ncfg = 0
    /\ \E no_bo \in BOOLEAN, l \in IdLists : buf = id_list_stream(no_bo, l)
    /\ tv = << >> /\ tv0 = << >>
    /\ strat \in {"BM_BIT", "BM_GAP"}
    /\ ret = 0 /\ err = FALSE
    /\ call = "none"
    /\ rcall = reader_call("none", "set_OR", FALSE, 0, 0)
    /\ tamper = "none"
    /\ arg = << >> /\ res = << >>
    /\ pc = "serialized"

NextIdList == Deserialize \/ OperationDeserialize

SpecIdList == InitIdList /\ [][NextIdList]_vars

\* the ids of the stream buf, read field by field
stream_id_count == get_32(FALSE, buf, ids_pos(buf[1]))
stream_ids ==
    { get_32(FALSE, buf, ids_pos(buf[1]) + 4 * k) : k \in 1 .. stream_id_count }

\* the ids of the stream but the last
stream_ids_but_last ==
    { get_32(FALSE, buf, ids_pos(buf[1]) + 4 * k) :
        k \in 1 .. (stream_id_count - 1) }

\* the engine has run with an operation of ops on the stream of an id list
id_list_ran(ops) ==
    /\ pc = "done" /\ rcall.reader = "operation_deserialize"
    /\ flag_set(buf[1], BM_HM_ID_LIST) /\ rcall.op \in ops

\* the bits of the target before the call; ASSIGN clears it
ids_before == IF rcall.op = "set_ASSIGN" THEN {} ELSE vec_ids(tv0)

\* what the operation op makes of the bits A of the target and the ids I
id_list_bits(op, A, I) ==
    CASE op = "set_AND" -> A \cap I
      [] op \in {"set_OR", "set_ASSIGN"} -> A \cup I
      [] op = "set_SUB" -> A \ I
      [] op = "set_XOR" -> (A \ I) \cup (I \ A)
      [] OTHER -> A

\* what the counting operation op returns for the bits A of the target and
\* the ids I
id_list_count(op, A, I) ==
    CASE op \in {"set_COUNT", "set_COUNT_B"} -> Cardinality(I)
      [] op = "set_COUNT_A" -> Cardinality(A)
      [] op = "set_COUNT_AND" -> Cardinality(A \cap I)
      [] op = "set_COUNT_OR" -> Cardinality(A \cup I)
      [] op = "set_COUNT_XOR" -> Cardinality((A \ I) \cup (I \ A))
      [] op = "set_COUNT_SUB_AB" -> Cardinality(A \ I)
      [] op = "set_COUNT_SUB_BA" -> Cardinality(I \ A)
      [] OTHER -> 0

\* C23: for the stream of an id list of N ids every operation of the engine
\* works on all N ids: OR sets the N bits, SUB clears them, XOR toggles each
\* of them once, COUNT and COUNT_B return N, COUNT_AND returns how many of
\* the N ids are set in the target, and so the other operations
IdListComplete ==
    id_list_ran(SetOps) =>
        /\ ~err
        /\ vec_ids(tv) = id_list_bits(rcall.op, ids_before, stream_ids)
        /\ ret = id_list_count(rcall.op, ids_before, stream_ids)

\* the operations that go through load_id_list with set_clear = true, or
\* count on a vector loaded by it, work on all N ids
IdListLoaded ==
    id_list_ran({"set_AND", "set_OR", "set_ASSIGN", "set_COUNT_A",
                 "set_COUNT_OR", "set_COUNT_XOR", "set_COUNT_SUB_AB",
                 "set_COUNT_SUB_BA"}) =>
        /\ ~err
        /\ vec_ids(tv) = id_list_bits(rcall.op, ids_before, stream_ids)
        /\ ret = id_list_count(rcall.op, ids_before, stream_ids)

\* XOR, COUNT, COUNT_B and COUNT_AND work on the ids but the last, and SUB
\* sets the N bits
IdListShort ==
    /\ id_list_ran({"set_XOR", "set_COUNT", "set_COUNT_B", "set_COUNT_AND"}) =>
          /\ vec_ids(tv) = id_list_bits(rcall.op, ids_before,
                                        stream_ids_but_last)
          /\ ret = id_list_count(rcall.op, ids_before, stream_ids_but_last)
    /\ id_list_ran({"set_SUB"}) =>
          vec_ids(tv) = ids_before \cup stream_ids


(* ------------------------------ COUNT and the target ------------------- *)

\* the stream of bv0 has no tail of blocks of ones (no token
\* set_block_aone)
no_aone_tail == block_bits(bv0, set_total_blocks - 1) # AllBits

\* the blocks the stream of bv0 has tokens of runs of zero blocks for: the
\* absent blocks before the last block of bv0
zero_run_blocks ==
    { k \in 0 .. (set_total_blocks - 1) :
        /\ block_bits(bv0, k) = {}
        /\ \E m \in DOMAIN bv0 : m > k }

\* C24: operation_deserializer::deserialize with COUNT returns what it
\* returns with COUNT_B, the number of the bits of the serialized vector,
\* whatever the target holds
CountIgnoresTarget ==
    engine_ran({"set_COUNT", "set_COUNT_B"}, FALSE)
        => /\ ~err
           /\ ret = count_op("set_COUNT_B", tv0, bv0, DOMAIN bv0)

\* COUNT_B returns the number of the bits of the serialized vector for
\* every target, when the stream has no tail of blocks of ones
CountBIgnoresTarget ==
    (engine_ran({"set_COUNT_B"}, FALSE) /\ no_aone_tail)
        => /\ ~err
           /\ ret = count_op("set_COUNT_B", tv0, bv0, DOMAIN bv0)

\* COUNT returns the bits of the serialized vector and those of the blocks
\* that the target has where the stream has a run of zero blocks
CountAddsTargetInZeroRuns ==
    (engine_ran({"set_COUNT"}, FALSE) /\ no_aone_tail)
        => /\ ~err
           /\ ret = count_op("set_COUNT_B", tv0, bv0, DOMAIN bv0)
                    + count_op("set_COUNT_A", tv0, bv0,
                               zero_run_blocks \cap DOMAIN tv0)


(* ------------------------------ bytes read and bytes written ----------- *)

\* deserialize has read the stream that serialize wrote
stream_deserialized ==
    /\ pc = "done" /\ tamper = "none"
    /\ rcall.reader = "deserialize"

\* the stream ends with set_block_end: the last block of the vector is not
\* empty
ends_with_block_end == block_bits(bv0, set_total_blocks - 1) # {}

\* C25: deserialize returns the size serialize returned for the stream
\* (the size of the buffer it filled), also for a stream that ends with
\* set_block_end
BytesReadAreBytesWritten ==
    stream_deserialized => (~err /\ ret = Len(buf))

\* deserialize returns the size of the stream when the stream ends with
\* set_block_azero, and one byte less when it ends with set_block_end
BytesReadButBlockEnd ==
    stream_deserialized
        => /\ ~err
           /\ ret = IF ends_with_block_end THEN Len(buf) - 1 ELSE Len(buf)
           /\ ends_with_block_end => buf[ret + 1] = set_block_end


(* ------------------------------ the new-blocks strategy ---------------- *)

\* C26: every call of deserialize leaves the target with the new-blocks
\* strategy it had before the call, on the normal end of the block loop, on
\* the return of the ID_LIST branch and on every error exit
StrategyRestored == [][Deserialize => strat' = strat]_vars

\* a call of deserialize that reaches the end of its block loop leaves the
\* target with the strategy it had before the call
StrategyRestoredAtLoopEnd ==
    [][(Deserialize /\ ~err') => strat' = strat]_vars

\* a call of deserialize that leaves by an error exit, or by the return of
\* the ID_LIST branch, leaves the target with BM_GAP
StrategyLeftAtGap ==
    [][(Deserialize /\ (err' \/ flag_set(buf[1], BM_HM_ID_LIST)))
          => strat' = "BM_GAP"]_vars


(* ------------------------------ speculative records -------------------- *)
(* The record writers that try a bit-coded record and fall back to a      *)
(* plain one, step by step: the encoder is its memory and its position,   *)
(* the bit writer is a bit_out on that encoder.  res holds both and what   *)
(* the writer remembers: enc_pos0, whether set_pos was called, where the   *)
(* fallback record started and the bytes bit_out stored after set_pos.     *)

\* encoder::put_8 .. put_32 of the bytes at the position of the encoder e
enc_put(e, bytes) ==
    [mem |-> SubSeq(e.mem, 1, e.pos) \o bytes
             \o SubSeq(e.mem, e.pos + Len(bytes) + 1, Len(e.mem)),
     pos |-> e.pos + Len(bytes)]

\* the words bit_out w stored with dest_.put_32 are in the encoder e
enc_stored(e, w) == enc_put(e, w.out)

\* the bit_out w after its stored words were taken to the encoder
bout_stored(w) == [w EXCEPT !.out = << >>]

\* the bytes of the encoder e from byte position from (0-based) to its
\* position: encoder::size() is e.pos
enc_bytes(e, from) == SubSeq(e.mem, from + 1, e.pos)

\* the code of one interpolated value put on the bit_out w
bout_bic_code(w, value, r, ub) ==
    IF r = 0 THEN w
    ELSE With(bit_scan_reverse32(r + 1), LAMBDA logv :
            bout_put_bits(w, value,
                          logv + (IF bic_long_code(value, r, logv) THEN 1 ELSE 0),
                          ub))

\* bit_out::bic_encode_u16_cm on the bit_out w
RECURSIVE bout_bic_encode_u16_cm(_, _, _, _, _, _, _)
bout_bic_encode_u16_cm(w, arr, off, sz, lo, hi, ub) ==
    IF sz = 0 THEN w
    ELSE With(arr[off + (sz \div 2) + 1], LAMBDA val :
         With(bout_bic_code(w, val - lo - (sz \div 2), hi - lo - sz + 1, ub),
              LAMBDA w1 :
         With(bout_bic_encode_u16_cm(w1, arr, off, sz \div 2, lo,
                                     (val + 65535) % 65536, ub), LAMBDA w2 :
              bout_bic_encode_u16_cm(w2, arr, off + (sz \div 2) + 1,
                                     sz - (sz \div 2) - 1, (val + 1) % 65536,
                                     hi, ub))))

\* bm::for_each_dgap with gamma_encoder_func on the bit_out w: the codes of
\* the words gap[from .. to], the loop taken in two halves
RECURSIVE bout_for_each_dgap(_, _, _, _, _)
bout_for_each_dgap(w, gap, from, to, ub) ==
    IF from > to THEN w
    ELSE IF from = to
    THEN bout_gamma(w, IF from = 2 THEN gap[2] + 1
                       ELSE gap[from] - gap[from - 1], ub)
    ELSE With(bout_for_each_dgap(w, gap, from, (from + to) \div 2, ub),
              LAMBDA w1 :
              bout_for_each_dgap(w1, gap, ((from + to) \div 2) + 1, to, ub))

\* the record writers that roll back
RollbackWriters ==
    {"gamma_gap_block", "interpolated_encode_gap_block", "bienc_gap_bit_block"}

\* the block of the call a in the form the writer gets it: the GAP block,
\* or the GAP form that bm::bit_to_gap gives of a bit block
rb_gap(a) ==
    IF a.fn # "bienc_gap_bit_block" /\ FitsGap(a.bits)
    THEN gap_block_of(a.bits)
    ELSE bit_to_gap(a.bits)

\* the test before the speculative record: "len > 3" and, for gamma, the
\* compression level
rb_speculates(a) ==
    CASE a.fn = "gamma_gap_block"
            -> gap_length(rb_gap(a)[1]) > 3 /\ a.clevel > 3
      [] a.fn = "interpolated_encode_gap_block"
            -> gap_length(rb_gap(a)[1]) > 3
      [] OTHER -> TRUE

\* the bytes put with the encoder before the bit codes
rb_head(a) ==
    With(rb_gap(a), LAMBDA gap :
        CASE a.fn = "gamma_gap_block"
                -> put_8(set_block_gap_egamma) \o put_16(gap[1])
          [] a.fn = "interpolated_encode_gap_block"
                -> put_8(set_block_gap_bienc) \o put_16(gap[1])
                   \o put_16(gap[2])
          [] OTHER
                -> put_8(set_block_bitgap_bienc) \o put_8(gap[1] % 2)
                   \o put_16(Len(gap) - 1) \o put_16(gap[2]))

\* the bit codes put on the bit_out w
rb_codes(a, w) ==
    With(rb_gap(a), LAMBDA gap :
        CASE a.fn = "gamma_gap_block" -> bout_for_each_dgap(w, gap, 2, gap_length(gap[1]) - 1, a.ub)
          [] a.fn = "interpolated_encode_gap_block"
                -> bout_bic_encode_u16_cm(w, gap, 2, gap_length(gap[1]) - 3,
                                          gap[2], gap_max_bits - 1, a.ub)
          [] OTHER
                -> bout_bic_encode_u16_cm(w, gap, 2, Len(gap) - 3, gap[2],
                                          gap_max_bits - 1, a.ub))

\* the speculative record is rolled back: its size in bytes against the
\* size of the plain record
rb_too_long(a, size) ==
    IF a.fn = "bienc_gap_bit_block" THEN size >= bit_block_bytes
    ELSE size > (gap_length(rb_gap(a)[1]) - 1) * 2

\* the plain record written after the rollback
rb_fallback(a) ==
    IF a.fn = "bienc_gap_bit_block" THEN encode_bit_digest(a.bits)
    ELSE plain_gap_block(rb_gap(a))

\* the bit_out of interpolated_encode_gap_block lives to the end of the
\* "if (len > 3)" block, past the set_pos; the other two are destroyed in
\* an inner block before the sizes are compared
rb_bout_outlives(a) == a.fn = "interpolated_encode_gap_block"

\* the state of a writer that was called on the encoder e
rb_called(e) ==
    [enc |-> e, w |-> bout_start, pos0 |-> e.pos, rolled |-> FALSE,
     destroyed |-> FALSE, fb_start |-> -1, late |-> 0]

\* the step of a record writer ended
rb_step(next) ==
    /\ pc' = next
    /\ UNCHANGED << bv, bv0, clevel, gap_serial, byte_order_serial, free_,
                    ncfg, buf, tv, tv0, strat, ret, err, call, rcall, tamper,
                    arg >>

\* enc_pos0 = enc.get_pos(), the head of the speculative record and its
\* bit codes; bit_out stores every accumulator that fills
EncodeSpeculative ==
    /\ pc = "rb_called" /\ rb_speculates(arg)
    /\ With(rb_codes(arg, res.w), LAMBDA w :
            res' = [res EXCEPT
                      !.enc = enc_stored(enc_put(res.enc, rb_head(arg)), w),
                      !.w = bout_stored(w)])
    /\ rb_step("rb_coded")

\* bout.flush() and, for the bit_out of an inner block, its destructor
FlushBitOut ==
    /\ pc = "rb_coded"
    /\ With(IF rb_bout_outlives(arg) THEN bout_flush(res.w)
            ELSE bout_flush(IF arg.fn = "bienc_gap_bit_block"
                            THEN bout_flush(res.w) ELSE res.w),
            LAMBDA w :
            res' = [res EXCEPT !.enc = enc_stored(res.enc, w),
                               !.w = bout_stored(w),
                               !.destroyed = ~rb_bout_outlives(arg)])
    /\ rb_step("rb_flushed")

\* enc_pos1 = enc.get_pos() and the test of the size: enc.set_pos(enc_pos0)
\* or the return with the speculative record
CompareSize ==
    /\ pc = "rb_flushed"
    /\ IF rb_too_long(arg, res.enc.pos - res.pos0)
       THEN /\ res' = [res EXCEPT !.enc.pos = res.pos0, !.rolled = TRUE]
            /\ rb_step("rb_restored")
       ELSE /\ res' = res
            /\ rb_step("rb_committed")

\* the destructor of the bit_out of interpolated_encode_gap_block, at the
\* return or at the end of the "if" block
DestroyBitOut ==
    /\ pc \in {"rb_restored", "rb_committed"}
    /\ ~res.destroyed
    /\ With(bout_flush(res.w), LAMBDA w :
            res' = [res EXCEPT !.enc = enc_stored(res.enc, w),
                               !.w = bout_stored(w),
                               !.destroyed = TRUE,
                               !.late = IF res.rolled THEN Len(w.out) ELSE 0])
    /\ rb_step(pc)

\* the plain record, after a rollback or with no speculative record tried
WriteFallback ==
    /\ \/ pc = "rb_called" /\ ~rb_speculates(arg)
       \/ pc = "rb_restored" /\ res.destroyed
    /\ res' = [res EXCEPT !.enc = enc_put(res.enc, rb_fallback(arg)),
                          !.fb_start = res.enc.pos]
    /\ rb_step("rb_returned")

\* the bits of the blocks given to the writers: GAP blocks of few runs and
\* bit blocks of up to bie_cut_off runs, with runs of even and uneven lengths
RollbackBlocks ==
    { {3}, {0, 1, 2}, Iv(5, 9) \cup {200}, {1, 9, 33, 64, 90, 120},
      Iv(0, 40) \cup Iv(60, 61) \cup Iv(100, 180) \cup {255},
      { k \in AllBits : k % 8 \in {0, 1, 2} },
      { k \in AllBits : (k % 8 \in {0, 1, 2}) # (k % 64 < 3) },
      { k \in AllBits : k % 9 \in {0, 1, 2, 3} } }

\* the bytes in the encoder when the writer is called
RollbackPrefixes == { << 17, 1 >>, << 17, 1, 1, 4, 2 >> }

RollbackArgs ==
    { [fn |-> f, bits |-> S, clevel |-> l, ub |-> u, prefix |-> p] :
        f \in RollbackWriters, S \in RollbackBlocks, l \in {3, 5},
        u \in {"mod", "zero"}, p \in RollbackPrefixes }

InitRollback ==
    /\ bv = << >> /\ bv0 = << >>
    /\ clevel = set_compression_max
    /\ gap_serial = FALSE /\ byte_order_serial = TRUE /\ free_ = FALSE
    /\ ncfg = 0
    /\ buf = << >>
    /\ tv = << >> /\ tv0 = << >>
    /\ strat = "BM_BIT"
    /\ ret = 0 /\ err = FALSE
    /\ call = "none"
    /\ rcall = reader_call("none", "set_OR", FALSE, 0, 0)
    /\ tamper = "none"
    /\ arg \in RollbackArgs
    /\ res = rb_called([mem |-> arg.prefix, pos |-> Len(arg.prefix)])
    /\ pc = "rb_called"

NextRollback ==
    \/ EncodeSpeculative
    \/ FlushBitOut
    \/ CompareSize
    \/ DestroyBitOut
    \/ WriteFallback

SpecRollback == InitRollback /\ [][NextRollback]_vars

\* the writer has returned
rb_returned ==
    \/ pc = "rb_returned"
    \/ pc = "rb_committed" /\ res.destroyed

\* the record the writer of the call a leaves in the stream
rb_record(a) ==
    CASE a.fn = "gamma_gap_block" -> gamma_gap_block(rb_gap(a), a.clevel)
      [] a.fn = "interpolated_encode_gap_block"
            -> interpolated_encode_gap_block(rb_gap(a))
      [] OTHER -> bienc_gap_bit_block(a.bits)

\* C27: after set_pos has rolled a speculative record back the bit writer
\* stores nothing in the encoder, the fallback record starts where the
\* speculative record started, and when the writer has returned the stream
\* is the bytes written before the call and exactly one record, the size of
\* the encoder counting these bytes alone
RolledBackBytesNeverLeak ==
    pc \in {"rb_restored", "rb_returned", "rb_committed"}
        => /\ res.late = 0
           /\ res.rolled => res.enc.pos >= res.pos0
           /\ (res.rolled /\ pc = "rb_returned")
                 => /\ res.fb_start = res.pos0
                    /\ enc_bytes(res.enc, res.pos0) = rb_fallback(arg)
           /\ rb_returned
                 => /\ enc_bytes(res.enc, 0) = arg.prefix \o rb_record(arg)
                    /\ res.enc.pos = Len(arg.prefix) + Len(rb_record(arg))

\* interpolated_encode_gap_block has rolled its record back, its bit_out
\* was destroyed after the set_pos and the plain record is written
RolledBackBytesNeverLeakWitness ==
    /\ pc = "rb_returned" /\ res.rolled
    /\ arg.fn = "interpolated_encode_gap_block"
    /\ res.destroyed /\ res.late = 0
    /\ res.fb_start = res.pos0
    /\ Len(res.enc.mem) > res.enc.pos


(* ------------------------------ walking the iterator ------------------- *)
(* A serial_stream_iterator on the stream buf, kept in res, moved by its   *)
(* own calls: next, skip_mono_blocks and the readers of a block.           *)

\* serial_stream_iterator::get_bit_block / get_gap_block, the block read
\* and dropped
sit_get_block(sw, b, s) ==
    With(IF s.state = "e_bit_block"
         THEN bit_block_payload(sw, b, s.pos, s.block_type)
         ELSE read_gap_block(sw, b, s.pos, s.block_type, s.gap_head),
         LAMBDA p :
         IF p.err THEN [s EXCEPT !.err = TRUE] ELSE sit_got_block(s, p.pos))

\* the iterator call ended
sit_called(prim) ==
    /\ call' = prim
    /\ UNCHANGED << bv, bv0, clevel, gap_serial, byte_order_serial, free_,
                    ncfg, buf, tv, tv0, strat, err, rcall, tamper, arg, pc >>

\* the iterator can be moved on
sit_live == pc = "iterating" /\ ~res.err /\ ~res.end_of_stream

\* serial_stream_iterator::next
SitNext ==
    /\ sit_live /\ res.state \in {"e_blocks", "e_zero_blocks", "e_one_blocks"}
    /\ res' = sit_next(FALSE, buf, res)
    /\ ret' = ret
    /\ sit_called("next")

\* serial_stream_iterator::skip_mono_blocks
SitSkipMonoBlocks ==
    /\ sit_live /\ res.state \in {"e_zero_blocks", "e_one_blocks"}
    /\ res' = skip_mono_blocks(res)
    /\ ret' = skip_mono_blocks(res).block_idx
    /\ sit_called("skip_mono_blocks")

\* serial_stream_iterator::get_bit_block, get_gap_block
SitGetBlock ==
    /\ sit_live /\ res.state \in {"e_bit_block", "e_gap_block"}
    /\ res' = sit_get_block(FALSE, buf, res)
    /\ ret' = ret
    /\ sit_called("get_block")

\* the iterator constructed on the stream of a vector of Sources
InitIterator ==
    /\ bv \in Sources /\ bv0 = bv
    /\ clevel = set_compression_max
    /\ gap_serial = FALSE /\ byte_order_serial = TRUE /\ free_ = FALSE
    /\ ncfg = 0
    /\ buf = serialize_buffer(bv, clevel, gap_serial, byte_order_serial,
                              free_).out
    /\ tv = << >> /\ tv0 = << >>
    /\ strat = "BM_BIT"
    /\ ret = 0 /\ err = FALSE
    /\ call = "none"
    /\ rcall = reader_call("none", "set_OR", FALSE, 0, 0)
    /\ tamper = "none"
    /\ arg = << >>
    /\ res = serial_stream_iterator(FALSE, buf)
    /\ pc = "iterating"

NextIterator == SitNext \/ SitSkipMonoBlocks \/ SitGetBlock

SpecIterator == InitIterator /\ [][NextIterator]_vars

\* the iterator is in a run, with res.mono_block_cnt blocks of it left after
\* the current one
in_mono_run ==
    sit_live /\ res.state \in {"e_zero_blocks", "e_one_blocks"}

\* C28: in a run with k blocks left in mono_block_cnt, one call of
\* skip_mono_blocks leaves the iterator as k + 1 calls of next do: state
\* e_blocks, the same block_idx, mono_block_cnt 0 and the same position in
\* the stream; the value it returns is that block_idx
SkipIsRepeatedNext ==
    /\ in_mono_run
          => /\ skip_mono_blocks(res) = sit_walk(res, res.mono_block_cnt + 1)
             /\ skip_mono_blocks(res).state = "e_blocks"
             /\ skip_mono_blocks(res).mono_block_cnt = 0
             /\ skip_mono_blocks(res).pos = res.pos
             /\ skip_mono_blocks(res).block_idx
                   = res.block_idx + res.mono_block_cnt + 1
    /\ (pc = "iterating" /\ call = "skip_mono_blocks")
          => ret = res.block_idx

\* skip_mono_blocks was called in a run of ones with more than one block
\* left, entered by calls of next
SkipIsRepeatedNextWitness ==
    /\ pc = "iterating" /\ call = "skip_mono_blocks"
    /\ res.state = "e_blocks" /\ res.mono_block_cnt = 0
    /\ ret = res.block_idx /\ ret > 3
    /\ res.block_type = set_block_8one


(* ------------------------------ one serializer, many blocks ------------ *)
(* The members of a serializer that outlive a block: the model list        *)
(* models_ / scores_ with its length mod_size_, digest0_,                  *)
(* bit_model_d0_size_ and bit_model_0run_size_.  m holds them; the         *)
(* classifier writes them and the record writers read them.                *)

reset_models_kept(m) == m

\* serializer::reset_models: the list keeps its entries
reset_models(m) == [m EXCEPT !.mod_size = 0]

\* serializer::add_model
add_model(m, mod, score) ==
    [m EXCEPT !.models = SubSeq(@, 1, m.mod_size) \o << << mod, score >> >>
                         \o SubSeq(@, m.mod_size + 2, Len(@)),
              !.mod_size = @ + 1]

\* add_model for the models of the list l, in order
RECURSIVE add_models(_, _)
add_models(m, l) ==
    IF l = << >> THEN m
    ELSE add_models(add_model(m, Head(l)[1], Head(l)[2]), Tail(l))

\* the loop that ends find_bit_best_encoding, over the mod_size_ entries
find_best_model(m) ==
    best_model(SubSeq(m.models, 1, m.mod_size), 1, gap_max_bits,
               set_block_bit)

\* the classifier returns model with the members m
classified(m, model) == [m |-> m, model |-> model]

\* find_bit_best_encoding from the digest on: digest0_ and
\* bit_model_d0_size_ set, the early returns, then the models of the level
classify_from_digest(m, S, level_models) ==
    With([m EXCEPT !.digest0 = calc_block_digest0(S)], LAMBDA m1 :
    IF m1.digest0 = {}
    THEN classified(add_model(m1, set_block_azero, 0), set_block_azero)
    ELSE
    With([m1 EXCEPT !.d0_size = 8 + set_block_digest_wave_size
                                    * Cardinality(m1.digest0) * 4],
         LAMBDA m2 :
    With(IF m2.digest0 # 0 .. (block_waves - 1)
         THEN add_model(m2, set_block_bit_digest0, m2.d0_size * 8) ELSE m2,
         LAMBDA m3 :
    IF Cardinality(S) = 1
    THEN classified(add_model(m3, set_block_bit_1bit, 16), set_block_bit_1bit)
    ELSE IF gap_max_bits - Cardinality(S) = 0
    THEN classified(add_model(m3, set_block_aone, 0), set_block_aone)
    ELSE With(add_models(m3, level_models), LAMBDA m4 :
              classified(m4, find_best_model(m4))))))

\* serializer::find_bit_best_encoding on the serializer with the members m:
\* the members it leaves and the model it returns
find_bit_best_encoding_on(m, S, level) ==
    With(add_model(reset_models(m), set_block_bit, gap_max_bits), LAMBDA m1 :
    IF level >= 5
    THEN With([m1 EXCEPT !.run0_size = bit_count_nonzero_size(S)], LAMBDA m2 :
            classify_from_digest(
                add_model(m2, set_block_bit_0runs, m2.run0_size * 8), S,
                l5_models(Cardinality(S), gap_max_bits - Cardinality(S),
                          bit_gaps_of(S))))
    ELSE IF level <= 1 THEN classified(m1, set_block_bit)
    ELSE With([m1 EXCEPT !.run0_size = bit_count_nonzero_size(S)], LAMBDA m2 :
            classify_from_digest(
                add_model(m2, set_block_bit_0runs, m2.run0_size * 8), S,
                l4_models(level, Cardinality(S),
                          gap_max_bits - Cardinality(S),
                          IF level >= 4 THEN bit_gaps_of(S)
                          ELSE gap_max_bits - 1))))

\* serializer::encode_bit_digest(block, enc, digest0_) with the members m
encode_bit_digest_on(m, S) ==
    IF m.digest0 # 0 .. (block_waves - 1)
    THEN IF m.run0_size < m.d0_size
         THEN encode_bit_interval(S)
         ELSE put_8(set_block_bit_digest0) \o put_bitset(m.digest0, 8)
              \o digest_waves(S, m.digest0, 0)
    ELSE IF m.run0_size < bit_block_bytes
         THEN encode_bit_interval(S)
         ELSE plain_bit_block(S)

\* serializer::encode_bit_array with the members m
encode_bit_array_on(m, S, inverted) ==
    With(bit_convert_to_arr(S, gap_max_bits \div 2, inverted), LAMBDA arr :
         IF Len(arr) > 0
         THEN put_prefixed_array_16(IF inverted THEN set_block_arrbit_inv
                                                ELSE set_block_arrbit, arr)
         ELSE encode_bit_digest_on(m, S))

\* serializer::bienc_arr_bit_block with the members m
bienc_arr_bit_block_on(m, S, inverted) ==
    With(bit_convert_to_arr(S, gap_equiv_len, inverted), LAMBDA arr :
         IF Len(arr) > 0 THEN interpolated_gap_array(arr, inverted)
         ELSE encode_bit_digest_on(m, S))

\* serializer::bienc_gap_bit_block with the members m
bienc_gap_bit_block_on(m, S) ==
    With(bitgap_bienc_record(bit_to_gap(S)), LAMBDA enc :
         IF Len(enc) >= bit_block_bytes THEN encode_bit_digest_on(m, S)
         ELSE enc)

\* serializer::interpolated_arr_bit_block with the members m
interpolated_arr_bit_block_on(m, S, inverted) ==
    With(bit_convert_to_arr(S, gap_max_bits \div 2, inverted), LAMBDA arr :
         IF Len(arr) = 0 THEN encode_bit_digest_on(m, S)
         ELSE With(arr_bienc_record(arr, inverted), LAMBDA enc :
              IF Len(enc) >= bit_block_bytes THEN encode_bit_digest_on(m, S)
              ELSE IF m.digest0 # 0 .. (block_waves - 1)
                      /\ Len(enc) > m.d0_size
                   THEN encode_bit_digest_on(m, S)
                   ELSE enc))

\* the bit-block switch of serializer::serialize with the members m
bit_block_record_on(m, S, level, model) ==
    CASE model \in {set_block_arrbit, set_block_arrbit_inv} ->
            encode_bit_array_on(m, S, model = set_block_arrbit_inv)
      [] model \in {set_block_arrgap_bienc, set_block_arrgap_bienc_inv} ->
            bienc_arr_bit_block_on(m, S, model = set_block_arrgap_bienc_inv)
      [] model \in {set_block_arr_bienc, set_block_arr_bienc_inv} ->
            interpolated_arr_bit_block_on(m, S,
                                          model = set_block_arr_bienc_inv)
      [] model = set_block_bitgap_bienc -> bienc_gap_bit_block_on(m, S)
      [] model = set_block_bit_digest0 -> encode_bit_digest_on(m, S)
      [] OTHER -> bit_block_record(S, level, model)

\* what the block loop of serialize writes for the bit block S: the record,
\* or for azero and aone the model alone, which sends the block to the run
\* tokens
bit_block_written(S, level, model, record) ==
    IF model \in {set_block_azero, set_block_aone} THEN put_8(model)
    ELSE record

\* the bit blocks encoded on one serializer
MaxReuseBlocks == 2

\* the bits of the blocks: a few words, parts of waves, all waves, one bit,
\* no bit, all bits, dense and scattered bits
ReuseBlocks ==
    { {}, AllBits, {77}, {1, 9, 33, 64, 90, 120}, Iv(0, 31) \cup Iv(128, 170),
      {65, 67, 69, 71},
      AllBits \ {5, 200}, AllBits \ Iv(32, 63),
      { k \in AllBits : k % 8 \in {0, 1, 2} },
      { k \in AllBits : k % 3 = 0 /\ k < 200 },
      { k \in AllBits : k % 32 \in {0, 7} },
      { k \in AllBits : k % 9 \in {0, 1, 2, 3} } }

\* the members of a serializer after its constructor, which sets none of
\* them: any values
FreshMembers ==
    { [models |-> l, mod_size |-> Len(l), digest0 |-> d, d0_size |-> z,
       run0_size |-> r] :
        l \in { << >>, << << set_block_arrbit, 0 >>,
                          << set_block_bit_digest0, 1 >> >> },
        d \in {{}, {0}, 0 .. (block_waves - 1)},
        z \in {0, 4 * bit_block_bytes}, r \in {0, 4 * bit_block_bytes} }

\* the step of the serializer ended
reuse_step(prim, next) ==
    /\ call' = prim
    /\ pc' = next
    /\ UNCHANGED << bv, bv0, clevel, gap_serial, byte_order_serial, ncfg, buf,
                    tv, tv0, strat, ret, err, rcall, tamper >>

\* serializer::serialize(bv, buf, stat) up to its block loop
ReuseSerialize ==
    /\ pc = "init" /\ res.n < MaxReuseBlocks
    /\ free_' = FALSE
    /\ UNCHANGED << arg, res >>
    /\ reuse_step("serialize", "encoding")

\* serializer::optimize_serialize_destroy up to the block loop: the flag is
\* set, then serialize(bv, buf, stat) clears it
ReuseOptimizeSerializeDestroy ==
    /\ pc = "init" /\ res.n < MaxReuseBlocks
    /\ free_' = FALSE
    /\ UNCHANGED << arg, res >>
    /\ reuse_step("optimize_serialize_destroy", "encoding")

\* one pass of the block loop over a bit block: find_bit_best_encoding,
\* then the switch over the model
EncodeBitBlock ==
    /\ pc = "encoding" /\ res.n < MaxReuseBlocks
    /\ \E S \in ReuseBlocks :
          /\ arg' = [bits |-> S, clevel |-> clevel]
          /\ With(find_bit_best_encoding_on(res.m, S, clevel), LAMBDA r :
                res' = [m |-> r.m, n |-> res.n + 1, model |-> r.model,
                        rec |-> bit_block_written(S, clevel, r.model,
                                    bit_block_record_on(r.m, S, clevel,
                                                        r.model))])
    /\ free_' = free_
    /\ reuse_step(call, "encoding")

\* the end of the block loop and the return; optimize_serialize_destroy
\* restores the flag
ReuseReturn ==
    /\ pc = "encoding" /\ res.n > 0
    /\ free_' = FALSE
    /\ UNCHANGED << arg, res >>
    /\ reuse_step(call, "init")

InitReuse ==
    /\ bv = << >> /\ bv0 = << >>
    /\ clevel = set_compression_max
    /\ gap_serial = FALSE /\ byte_order_serial = TRUE /\ free_ = FALSE
    /\ ncfg = 0
    /\ buf = << >>
    /\ tv = << >> /\ tv0 = << >>
    /\ strat = "BM_BIT"
    /\ ret = 0 /\ err = FALSE
    /\ call = "none"
    /\ rcall = reader_call("none", "set_OR", FALSE, 0, 0)
    /\ tamper = "none"
    /\ arg = << >>
    /\ \E m \in FreshMembers : res = [m |-> m, n |-> 0, model |-> set_block_bit, rec |-> << >>]
    /\ pc = "init"

NextReuse ==
    \/ set_compression_level
    \/ ReuseSerialize
    \/ ReuseOptimizeSerializeDestroy
    \/ EncodeBitBlock
    \/ ReuseReturn

SpecReuse == InitReuse /\ [][NextReuse]_vars

\* C29: what a serializer writes for a block is what the block and the
\* configuration alone give, whatever blocks and vectors the serializer
\* encoded before, in serialize or in optimize_serialize_destroy: no model
\* list, digest or size estimate of an earlier block and no destructive flag
\* of an earlier call has a part in it
SerializerReuse ==
    res.n > 0
        => /\ res.rec
                = bit_block_written(arg.bits, arg.clevel,
                      find_bit_best_encoding(arg.bits, arg.clevel),
                      encode_bit_block(arg.bits, arg.clevel))
           /\ ~free_

\* the last block on one serializer, in a later call and at another level
\* than the block before it, with entries of the model list left over: it
\* is written in the digest form
SerializerReuseWitness ==
    /\ res.n = MaxReuseBlocks
    /\ call = "serialize" /\ ncfg > 0
    /\ res.rec[1] = set_block_bit_digest0
    /\ res.m.mod_size < Len(res.m.models)


(* ------------------------------ the minimum search --------------------- *)

\* the models the classifier added for the block it classified last, with
\* their scores, in the order of add_model
models_added == SubSeq(res.m.models, 1, res.m.mod_size)

\* the classifier ended with its search of the least score: it took none
\* of the early returns for an empty block, one bit or a block of ones
min_search_ran ==
    /\ res.n > 0 /\ arg.clevel >= 2
    /\ models_added[Len(models_added)][1]
          \notin {set_block_azero, set_block_bit_1bit, set_block_aone}

\* entry i of the list is the first one of the least score
first_of_least(l, i) ==
    /\ \A j \in 1 .. Len(l) : l[j][2] >= l[i][2]
    /\ \A j \in 1 .. (i - 1) : l[j][2] > l[i][2]

\* C30: the minimum search returns a model other than the plain bit block
\* only when the score of that model is below gap_max_bits, the 65536 bits
\* of a plain block; among the models of the least score it returns the one
\* added first, and a score equal to the least one so far replaces nothing
ClassifierTieBreak ==
    min_search_ran
        => IF \E i \in 1 .. Len(models_added) :
                  models_added[i][2] < gap_max_bits
           THEN \E i \in 1 .. Len(models_added) :
                   /\ models_added[i][1] = res.model
                   /\ models_added[i][2] < gap_max_bits
                   /\ first_of_least(models_added, i)
           ELSE res.model = set_block_bit

\* the search ran over a list with two models of the least score, below
\* gap_max_bits: the one added first was returned
ClassifierTieBreakWitness ==
    /\ min_search_ran
    /\ \E i, j \in 1 .. Len(models_added) :
          /\ i < j
          /\ models_added[i][2] = models_added[j][2]
          /\ models_added[i][1] # models_added[j][1]
          /\ models_added[i][2] < gap_max_bits
          /\ first_of_least(models_added, i)
          /\ res.model = models_added[i][1]

====
